---- MODULE Spec2Model ----
(***************************************************************************)
(* Model of src/openapi_to_proto_code_with_enums.py: the OpenAPI -> proto3 *)
(* compiler generate_proto and the functions it calls.                     *)
(*                                                                         *)
(* Python str values are TLA+ strings, handled character by character      *)
(* (Len, SubSeq and \o act on strings).  Parsed YAML values are tagged     *)
(* records [t, v]: dict ("d", a sequence of <<key, value>> pairs in        *)
(* document order), list ("l"), str ("s"), int ("i"), bool ("b"), None.    *)
(***************************************************************************)
EXTENDS Integers, Sequences, FiniteSets, TLC

(* ------------------------------------------------------------------ str *)

Char(s, i) == SubSeq(s, i, i)

LowerS == "abcdefghijklmnopqrstuvwxyz"
UpperS == "ABCDEFGHIJKLMNOPQRSTUVWXYZ"
DigitS == "0123456789"

CharsOf(s) == {Char(s, i) : i \in 1..Len(s)}
LowerSet == CharsOf(LowerS)
UpperSet == CharsOf(UpperS)
DigitSet == CharsOf(DigitS)
AlnumSet == LowerSet \cup UpperSet \cup DigitSet
SpaceSet == {" ", "\n", "\t", "\r"}

IndexIn(s, c) == CHOOSE i \in 1..Len(s) : Char(s, i) = c

\* str.upper() and str.lower() of one character
UpperC(c) == IF c \in LowerSet THEN Char(UpperS, IndexIn(LowerS, c)) ELSE c
LowerC(c) == IF c \in UpperSet THEN Char(LowerS, IndexIn(UpperS, c)) ELSE c

RECURSIVE ConcatAll(_)
ConcatAll(parts) ==
  IF Len(parts) = 0 THEN "" ELSE Head(parts) \o ConcatAll(Tail(parts))

\* sep.join(parts)
RECURSIVE Join(_, _)
Join(parts, sep) ==
  IF Len(parts) = 0 THEN ""
  ELSE IF Len(parts) = 1 THEN Head(parts)
  ELSE Head(parts) \o sep \o Join(Tail(parts), sep)

Upper(s) == ConcatAll([i \in 1..Len(s) |-> UpperC(Char(s, i))])
Lower(s) == ConcatAll([i \in 1..Len(s) |-> LowerC(Char(s, i))])

\* str.capitalize(): first character upper-cased, the rest lower-cased
Capitalize(s) ==
  ConcatAll([i \in 1..Len(s) |->
               IF i = 1 THEN UpperC(Char(s, i)) ELSE LowerC(Char(s, i))])

StartsWith(s, p) == Len(s) >= Len(p) /\ SubSeq(s, 1, Len(p)) = p

\* the k-th smallest element of a finite set of integers
Nth(P, k) == CHOOSE p \in P : Cardinality({q \in P : q < p}) = k - 1

\* F applied to the value of e, which is evaluated once
Let(e, F(_)) == CHOOSE r \in {F(v) : v \in {e}} : TRUE

\* a finite set of integers as an increasing sequence
RECURSIVE Sorted(_)
Sorted(P) ==
  IF P = {} THEN <<>>
  ELSE Let(CHOOSE m \in P : \A q \in P : m <= q, LAMBDA m : <<m>> \o Sorted(P \ {m}))

\* s.split(sep) for a one-character separator
Split(s, sep) ==
  Let(Sorted({i \in 1..Len(s) : Char(s, i) = sep}), LAMBDA ps :
    [k \in 1..(Len(ps) + 1) |->
       SubSeq(s, IF k = 1 THEN 1 ELSE ps[k - 1] + 1,
                 IF k = Len(ps) + 1 THEN Len(s) ELSE ps[k] - 1)])

\* the position of the last character of s before the first line break at
\* or after position i
RECURSIVE LineEnd(_, _)
LineEnd(s, i) == IF i > Len(s) \/ Char(s, i) = "\n" THEN i - 1 ELSE LineEnd(s, i + 1)

\* s.split("\n", 1)[0]
FirstLine(s) == SubSeq(s, 1, LineEnd(s, 1))

\* s.split("/")[-1]
LastSegment(s) ==
  LET P == {i \in 1..Len(s) : Char(s, i) = "/"}
  IN  IF P = {} THEN s ELSE SubSeq(s, Nth(P, Cardinality(P)) + 1, Len(s))

\* s.split(): the maximal runs of non-whitespace characters
Tokens(s) ==
  LET isSp(i) == Char(s, i) \in SpaceSet
      B == {i \in 1..Len(s) : ~isSp(i) /\ (i = 1 \/ isSp(i - 1))}
      E == {i \in 1..Len(s) : ~isSp(i) /\ (i = Len(s) \/ isSp(i + 1))}
  IN  [k \in 1..Cardinality(B) |-> SubSeq(s, Nth(B, k), Nth(E, k))]

\* s.lstrip(chars): leading characters that belong to chars are removed
LStrip(s, chars) ==
  LET keep == {i \in 1..Len(s) : Char(s, i) \notin CharsOf(chars)}
  IN  IF keep = {} THEN "" ELSE SubSeq(s, Nth(keep, 1), Len(s))

\* str(n) for n >= 0
RECURSIVE IntStr(_)
IntStr(n) ==
  IF n < 10 THEN Char(DigitS, n + 1)
  ELSE IntStr(n \div 10) \o Char(DigitS, (n % 10) + 1)

\* str.isdigit()
IsDigit(s) == Len(s) > 0 /\ CharsOf(s) \subseteq DigitSet

\* int(s) for a string of decimal digits
RECURSIVE ParseInt(_)
ParseInt(s) ==
  IF Len(s) = 0 THEN 0
  ELSE 10 * ParseInt(SubSeq(s, 1, Len(s) - 1)) + (IndexIn(DigitS, Char(s, Len(s))) - 1)

(* ----------------------------------------------------- parsed YAML values *)

None == [t |-> "n", v |-> ""]
Str(s) == [t |-> "s", v |-> s]
IntV(n) == [t |-> "i", v |-> n]
Bool(b) == [t |-> "b", v |-> b]
List(xs) == [t |-> "l", v |-> xs]
Dict(kvs) == [t |-> "d", v |-> kvs]

IsNone(x) == x.t = "n"
IsDict(x) == x.t = "d"
IsStr(x) == x.t = "s"
IsInt(x) == x.t = "i"
\* x == s for a str s: values of different types are never equal
StrEq(x, s) == IsStr(x) /\ x.v = s

\* bool(x)
Truthy(x) ==
  CASE x.t = "n" -> FALSE
    [] x.t = "b" -> x.v
    [] x.t = "i" -> x.v # 0
    [] OTHER -> Len(x.v) > 0

KeyIdx(d, k) == {i \in 1..Len(d.v) : IsStr(d.v[i][1]) /\ d.v[i][1].v = k}
\* k in d
Has(d, k) == KeyIdx(d, k) # {}
\* d[k]
At(d, k) == d.v[CHOOSE i \in KeyIdx(d, k) : TRUE][2]
\* d.get(k, default) and d.get(k)
GetOr(d, k, default) == IF Has(d, k) THEN At(d, k) ELSE default
Get(d, k) == GetOr(d, k, None)


\* "needle in s" for str operands
Contains(s, needle) ==
  \E i \in 1..(Len(s) - Len(needle) + 1) : SubSeq(s, i, i + Len(needle) - 1) = needle

(* ------------------------------------------------------------ utilities *)

\* resolve_ref: node = node[part] for each part of ref.lstrip("#/").split("/");
\* ok is FALSE where Python raises (KeyError, or TypeError on a non-dict node)
RECURSIVE walk(_, _)
walk(node, parts) ==
  IF Len(parts) = 0 THEN [ok |-> TRUE, node |-> node]
  ELSE IF IsDict(node) /\ Has(node, Head(parts)) THEN walk(At(node, Head(parts)), Tail(parts))
  ELSE [ok |-> FALSE, node |-> None]

resolve_ref(ref, spec) == walk(spec, Split(LStrip(ref, "#/"), "/"))

\* map_type: a fixed table with default "string"; the argument is a parsed value
map_type(openapi_type) ==
  CASE StrEq(openapi_type, "string") -> "string"
    [] StrEq(openapi_type, "integer") -> "int32"
    [] StrEq(openapi_type, "number") -> "double"
    [] StrEq(openapi_type, "boolean") -> "bool"
    [] OTHER -> "string"

\* re.sub(r'[^A-Za-z0-9_]', '_', n)
safe_name(n) ==
  ConcatAll([i \in 1..Len(n) |->
               IF Char(n, i) \in AlnumSet \cup {"_"} THEN Char(n, i) ELSE "_"])

\* re.sub(r'[^A-Za-z0-9]', '', tag)
sanitize_tag(tag) ==
  ConcatAll([i \in 1..Len(tag) |->
               IF Char(tag, i) \in AlnumSet THEN Char(tag, i) ELSE ""])

normalize_operation_id(op) ==
  IF StartsWith(Lower(op), "retrieve")
  THEN "get" \o SubSeq(op, Len("retrieve") + 1, Len(op))
  ELSE op

\* to_camel: the non-empty parts of re.split(r'[^A-Za-z0-9]+', s), each with
\* its first character upper-cased, concatenated
to_camel(s) ==
  LET alnum(i) == Char(s, i) \in AlnumSet
      B == {i \in 1..Len(s) : alnum(i) /\ (i = 1 \/ ~alnum(i - 1))}
      E == {i \in 1..Len(s) : alnum(i) /\ (i = Len(s) \/ ~alnum(i + 1))}
      part(k) == SubSeq(s, Nth(B, k), Nth(E, k))
  IN  ConcatAll([k \in 1..Cardinality(B) |->
                   UpperC(Char(part(k), 1)) \o SubSeq(part(k), 2, Len(part(k)))])

is_freeform_object(schema) ==
  /\ IsDict(schema)
  /\ StrEq(Get(schema, "type"), "object")
  /\ ~Truthy(Get(schema, "properties"))
  /\ ~Truthy(Get(schema, "additionalProperties"))

(* ------------------------------------------------------ enum generation *)

\* generate_enum without the test of lines 66-67
generate_enum_unregistered(name, schema, enums) ==
  LET vals == GetOr(schema, "enum", List(<<>>)).v
      members == [i \in 1..Len(vals) |->
                    "  " \o Upper(safe_name(vals[i].v)) \o " = " \o IntStr(i) \o ";"]
      lines0 == <<"enum " \o name \o " {", "  " \o Upper(name) \o "_UNSPECIFIED = 0;">>
                 \o members \o <<"}">>
  IN  [def |-> Str(Join(lines0, "\n")), enums |-> enums \cup {name}]

\* generate_enum with the literals numbered from 0 (enumerate without start=1)
generate_enum_from_zero(name, schema, enums) ==
  IF name \in enums THEN [def |-> None, enums |-> enums]
  ELSE
    LET vals == GetOr(schema, "enum", List(<<>>)).v
        members == [i \in 1..Len(vals) |->
                      "  " \o Upper(safe_name(vals[i].v)) \o " = " \o IntStr(i - 1) \o ";"]
        lines0 == <<"enum " \o name \o " {", "  " \o Upper(name) \o "_UNSPECIFIED = 0;">>
                   \o members \o <<"}">>
    IN  [def |-> Str(Join(lines0, "\n")), enums |-> enums \cup {name}]

\* generate_enum on the registry enums_defined = enums; def is the returned
\* Optional[str], enums the registry afterwards
generate_enum(name, schema, enums) ==
  IF name \in enums THEN [def |-> None, enums |-> enums]
  ELSE
    LET vals == GetOr(schema, "enum", List(<<>>)).v
        members == [i \in 1..Len(vals) |->
                      "  " \o Upper(safe_name(vals[i].v)) \o " = " \o IntStr(i) \o ";"]
        lines == <<"enum " \o name \o " {", "  " \o Upper(name) \o "_UNSPECIFIED = 0;">>
                   \o members \o <<"}">>
    IN  [def |-> Str(Join(lines, "\n")), enums |-> enums \cup {name}]

(* --------------------------------------------------- message generation *)

\* the element type of an array from its items (lines 101-105, 134-137, 280-282)
items_type(items) ==
  IF IsDict(items) /\ Has(items, "$ref")
  THEN LastSegment(At(items, "$ref").v)
  ELSE map_type(GetOr(items, "type", Str("string")))

\* the value type of a map from its additionalProperties (lines 111-112)
map_value_type(ap) == IF IsDict(ap) THEN map_type(Get(ap, "type")) ELSE "string"

\* idx += 1 (lines 94, 107, 114, 119), and the same with the increment left out
idx_unchanged(idx) == idx
next_idx(idx) == idx + 1

\* the field line appended by the property loop (lines 93, 106, 113, 118)
field_line(typ, field, idx) == "  " \o typ \o " " \o field \o " = " \o IntStr(idx) \o ";"

\* the iteration with the test of the reference placed before the test of
\* the enum
message_field_ref_first(acc, prop, val) ==
  IF IsDict(val) /\ ~Has(val, "$ref") /\ ~IsNone(Get(val, "enum")) THEN
    Let(generate_enum(Capitalize(safe_name(prop)), val, acc.enums), LAMBDA g :
      [lines |-> Append(acc.lines, field_line(Capitalize(safe_name(prop)), safe_name(prop), acc.idx)),
       idx |-> next_idx(acc.idx),
       enums |-> g.enums,
       nested |-> IF Truthy(g.def) THEN Append(acc.nested, g.def.v) ELSE acc.nested])
  ELSE
    Let(IF IsDict(val) /\ Has(val, "$ref") THEN
          LastSegment(At(val, "$ref").v)
        ELSE IF IsDict(val) /\ StrEq(Get(val, "type"), "array") THEN
          "repeated " \o items_type(GetOr(val, "items", Dict(<<>>)))
        ELSE IF IsDict(val) /\ StrEq(Get(val, "type"), "object") /\ Has(val, "additionalProperties") THEN
          "map<string, " \o map_value_type(At(val, "additionalProperties")) \o ">"
        ELSE IF IsDict(val) THEN map_type(GetOr(val, "type", Str("string")))
        ELSE "string",
        LAMBDA typ :
      [acc EXCEPT !.lines = Append(@, field_line(typ, safe_name(prop), acc.idx)),
                  !.idx = next_idx(@)])

\* One iteration of the property loop of generate_message_from_schema
\* (lines 85-119).  acc = [lines, idx, enums, nested]: the locals lines and
\* idx and the globals enums_defined and nested_enum_defs.
message_field(acc, prop, val) ==
  IF IsDict(val) /\ ~IsNone(Get(val, "enum")) THEN
    Let(generate_enum(Capitalize(safe_name(prop)), val, acc.enums), LAMBDA g :
      [lines |-> Append(acc.lines, field_line(Capitalize(safe_name(prop)), safe_name(prop), acc.idx)),
       idx |-> next_idx(acc.idx),
       enums |-> g.enums,
       nested |-> IF Truthy(g.def) THEN Append(acc.nested, g.def.v) ELSE acc.nested])
  ELSE
    Let(IF IsDict(val) /\ Has(val, "$ref") THEN
          LastSegment(At(val, "$ref").v)
        ELSE IF IsDict(val) /\ StrEq(Get(val, "type"), "array") THEN
          "repeated " \o items_type(GetOr(val, "items", Dict(<<>>)))
        ELSE IF IsDict(val) /\ StrEq(Get(val, "type"), "object") /\ Has(val, "additionalProperties") THEN
          "map<string, " \o map_value_type(At(val, "additionalProperties")) \o ">"
        ELSE IF IsDict(val) THEN map_type(GetOr(val, "type", Str("string")))
        ELSE "string",
        LAMBDA typ :
      [acc EXCEPT !.lines = Append(@, field_line(typ, safe_name(prop), acc.idx)),
                  !.idx = next_idx(@)])

RECURSIVE message_fields(_, _)
message_fields(acc, props) ==
  IF Len(props) = 0 THEN acc
  ELSE Let(message_field(acc, Head(props)[1].v, Head(props)[2]), LAMBDA a :
         message_fields(a, Tail(props)))

\* lines 80-81: the schema itself, or what its $ref resolves to
deref(schema, spec) ==
  IF IsDict(schema) /\ Has(schema, "$ref")
  THEN resolve_ref(At(schema, "$ref").v, spec)
  ELSE [ok |-> TRUE, node |-> schema]

\* the schemas a schema names in a reference: its own, its properties' and
\* their items'
targets_of(schema) ==
  IF ~IsDict(schema) THEN {}
  ELSE (IF Has(schema, "$ref") THEN {LastSegment(At(schema, "$ref").v)} ELSE {})
       \cup UNION { Let(At(schema, "properties").v[i][2], LAMBDA val :
                      IF ~IsDict(val) THEN {}
                      ELSE IF Has(val, "$ref") THEN {LastSegment(At(val, "$ref").v)}
                      ELSE IF IsDict(Get(val, "items")) /\ Has(At(val, "items"), "$ref")
                        THEN {LastSegment(At(At(val, "items"), "$ref").v)}
                      ELSE {})
                   : i \in 1..(IF Truthy(Get(schema, "properties"))
                               THEN Len(At(schema, "properties").v) ELSE 0) }

\* the schemas of the catalogue reached from a set of names in at most n
\* references
RECURSIVE reached_from(_, _, _)
reached_from(names, catalogue, n) ==
  IF n = 0 THEN names
  ELSE reached_from(names \cup UNION {IF Has(catalogue, t) THEN targets_of(At(catalogue, t)) ELSE {}
                                      : t \in names},
                    catalogue, n - 1)

\* a synthesizer that inlines the referenced schemas into the message: on a
\* schema from which a reference cycle is reached the recursion has no end
\* and the interpreter raises RecursionError
generate_message_from_schema_inlining(name, schema, spec, enums, nested) ==
  Let(deref(schema, spec), LAMBDA r :
    IF \/ ~r.ok
       \/ ~IsDict(r.node)
       \/ Let(GetOr(GetOr(spec, "components", Dict(<<>>)), "schemas", Dict(<<>>)), LAMBDA cat :
             \E t \in reached_from(targets_of(r.node), cat, Len(cat.v)) :
               /\ Has(cat, t)
               /\ t \in reached_from(targets_of(At(cat, t)), cat, Len(cat.v)))
    THEN [ok |-> FALSE, text |-> "", enums |-> enums, nested |-> nested]
    ELSE
      Let(message_fields([lines |-> <<"message " \o name \o " {">>, idx |-> 1,
                          enums |-> enums, nested |-> nested],
                         IF Truthy(Get(r.node, "properties"))
                         THEN At(r.node, "properties").v ELSE <<>>),
          LAMBDA acc :
        [ok |-> TRUE, text |-> Join(Append(acc.lines, "}"), "\n"),
         enums |-> acc.enums, nested |-> acc.nested]))

\* generate_message_from_schema; ok is FALSE when resolve_ref raises
generate_message_from_schema(name, schema, spec, enums, nested) ==
  Let(deref(schema, spec), LAMBDA r :
    IF ~r.ok \/ ~IsDict(r.node)
    THEN [ok |-> FALSE, text |-> "", enums |-> enums, nested |-> nested]
    ELSE
      Let(message_fields([lines |-> <<"message " \o name \o " {">>, idx |-> 1,
                          enums |-> enums, nested |-> nested],
                         IF Truthy(Get(r.node, "properties"))
                         THEN At(r.node, "properties").v ELSE <<>>),
          LAMBDA acc :
        [ok |-> TRUE, text |-> Join(Append(acc.lines, "}"), "\n"),
         enums |-> acc.enums, nested |-> acc.nested]))

\* the item type of an array schema (lines 134-137 and 280-282)
array_item_type(schema) == items_type(GetOr(schema, "items", Dict(<<>>)))

\* the wrapper with the repeated label left out
array_wrapper_bare(name, item_type) ==
  "message " \o name \o " {\n  " \o item_type \o " items = 1;\n}"

array_wrapper(name, item_type) ==
  "message " \o name \o " {\n  repeated " \o item_type \o " items = 1;\n}"

\* the loop body with the array test of line 133 made before the enum test
\* of line 128
schema_message_array_first(acc, name, schema, spec) ==
  IF IsDict(schema) /\ StrEq(Get(schema, "type"), "array") THEN
    [acc EXCEPT !.msgs = Append(@, array_wrapper(name, array_item_type(schema)))]
  ELSE IF IsDict(schema) /\ ~IsNone(Get(schema, "enum")) THEN
    Let(generate_enum(name, schema, acc.enums), LAMBDA g :
      [acc EXCEPT !.enums = g.enums,
                  !.msgs = IF Truthy(g.def) THEN Append(@, g.def.v) ELSE @])
  ELSE IF IsDict(schema) /\ is_freeform_object(schema) THEN
    acc
  ELSE
    Let(generate_message_from_schema(name, schema, spec, acc.enums, acc.nested), LAMBDA m :
      [ok |-> m.ok, msgs |-> IF m.ok THEN Append(acc.msgs, m.text) ELSE acc.msgs,
       enums |-> m.enums, nested |-> m.nested])

\* One iteration of the loop of generate_schema_messages (lines 126-144).
\* acc = [ok, msgs, enums, nested]
schema_message(acc, name, schema, spec) ==
  IF IsDict(schema) /\ ~IsNone(Get(schema, "enum")) THEN
    Let(generate_enum(name, schema, acc.enums), LAMBDA g :
      [acc EXCEPT !.enums = g.enums,
                  !.msgs = IF Truthy(g.def) THEN Append(@, g.def.v) ELSE @])
  ELSE IF IsDict(schema) /\ StrEq(Get(schema, "type"), "array") THEN
    [acc EXCEPT !.msgs = Append(@, array_wrapper(name, array_item_type(schema)))]
  ELSE IF IsDict(schema) /\ is_freeform_object(schema) THEN
    acc
  ELSE
    Let(generate_message_from_schema(name, schema, spec, acc.enums, acc.nested), LAMBDA m :
      [ok |-> m.ok, msgs |-> IF m.ok THEN Append(acc.msgs, m.text) ELSE acc.msgs,
       enums |-> m.enums, nested |-> m.nested])

RECURSIVE schema_messages(_, _, _)
schema_messages(acc, entries, spec) ==
  IF Len(entries) = 0 \/ ~acc.ok THEN acc
  ELSE Let(schema_message(acc, Head(entries)[1].v, Head(entries)[2], spec), LAMBDA a :
         schema_messages(a, Tail(entries), spec))

\* spec.get("components", {}).get("schemas", {}) or {}
components_of(spec, what) ==
  LET c == GetOr(GetOr(spec, "components", Dict(<<>>)), what, Dict(<<>>))
  IN  IF Truthy(c) THEN c ELSE Dict(<<>>)

generate_schema_messages(spec, enums, nested) ==
  schema_messages([ok |-> TRUE, msgs |-> <<>>, enums |-> enums, nested |-> nested],
                  components_of(spec, "schemas").v, spec)

(* ------------------------------------ body and response schema extraction *)

\* find_json_schema: the schema of the first media type whose name contains
\* "application/json" (None when that entry has no schema, or none matches)
find_json_schema(content) ==
  LET M == {i \in 1..Len(content.v) : Contains(content.v[i][1].v, "application/json")}
  IN  IF M = {} THEN None ELSE Get(content.v[Nth(M, 1)][2], "schema")

\* extract_body_schema; ok is FALSE when resolve_ref raises
extract_body_schema(op, spec) ==
  IF ~Truthy(Get(op, "requestBody")) THEN [ok |-> TRUE, schema |-> None]
  ELSE
    Let(deref(At(op, "requestBody"), spec), LAMBDA r :
      IF ~r.ok \/ ~IsDict(r.node) THEN [ok |-> FALSE, schema |-> None]
      ELSE [ok |-> TRUE, schema |-> find_json_schema(GetOr(r.node, "content", Dict(<<>>)))])

\* is the response code an int, or a str of digits, in [200, 300) (lines 173-179)
is_2xx(code) ==
  IF IsInt(code) THEN 200 <= code.v /\ code.v < 300
  ELSE IF IsStr(code) /\ IsDigit(code.v)
       THEN 200 <= ParseInt(code.v) /\ ParseInt(code.v) < 300
       ELSE FALSE

\* the first 2xx entry of responses, None when there is none (lines 171-181)
first_success(responses) ==
  LET S == {i \in 1..Len(responses.v) : is_2xx(responses.v[i][1])}
  IN  IF S = {} THEN None ELSE responses.v[Nth(S, 1)][2]

\* line 182: success = success or op.get("responses", {}).get("default")
select_response(op) ==
  Let(first_success(GetOr(op, "responses", Dict(<<>>))), LAMBDA success :
    IF Truthy(success) THEN success
    ELSE Get(GetOr(op, "responses", Dict(<<>>)), "default"))

\* lines 185-190: the response object is itself a reference
referenced_response(ref, spec) ==
  Let(resolve_ref(ref, spec), LAMBDA r :
    IF ~r.ok THEN [ok |-> FALSE, res_type |-> "", inline |-> None]
    ELSE IF is_freeform_object(r.node)
    THEN [ok |-> TRUE, res_type |-> "google.protobuf.Struct", inline |-> None]
    ELSE [ok |-> TRUE, res_type |-> to_camel(normalize_operation_id(LastSegment(ref))),
          inline |-> None])

\* lines 191-196: the response carries its schema inline
inline_response(raw_id, schema) ==
  IF ~Truthy(schema) THEN [ok |-> TRUE, res_type |-> "Empty", inline |-> None]
  ELSE [ok |-> TRUE, res_type |-> to_camel(normalize_operation_id(raw_id)) \o "Response",
        inline |-> schema]

\* extract_response_schema: (res_type, inline); ok is FALSE when the
\* operation has no operationId (AttributeError) or resolve_ref raises
extract_response_schema(op, spec) ==
  IF ~IsStr(Get(op, "operationId")) THEN [ok |-> FALSE, res_type |-> "", inline |-> None]
  ELSE
    Let(select_response(op), LAMBDA success :
      IF ~Truthy(success) THEN [ok |-> TRUE, res_type |-> "Empty", inline |-> None]
      ELSE IF Has(success, "$ref") THEN referenced_response(At(success, "$ref").v, spec)
      ELSE inline_response(At(op, "operationId").v,
                           find_json_schema(GetOr(success, "content", Dict(<<>>)))))

(* ------------------------------------------- services and message extras *)

\* the type of a parameter's field (lines 205-209 and 260-262)
param_type(p) ==
  LET sch == IF Truthy(Get(p, "schema")) THEN At(p, "schema") ELSE Dict(<<>>)
  IN  IF Has(sch, "$ref") THEN LastSegment(At(sch, "$ref").v)
      ELSE map_type(GetOr(sch, "type", Str("string")))

\* the field lines of the parameters, numbered from 1
param_fields(params) ==
  [i \in 1..Len(params) |->
     "  " \o param_type(params[i]) \o " " \o safe_name(At(params[i], "name").v)
          \o " = " \o IntStr(i) \o ";"]

generate_param_message(name, params) ==
  Join(<<"message " \o name \o " {">> \o param_fields(params) \o <<"}">>, "\n")

\* the composite request message of lines 257-267
composite_message(rname, in_params, req_type) ==
  Join(<<"message " \o rname \o " {">> \o param_fields(in_params)
         \o <<"  " \o req_type \o " body = " \o IntStr(Len(in_params) + 1) \o ";", "}">>,
       "\n")

\* extras: Dict[str, str] in insertion order, as a sequence of <<name, text>>
ExtrasHas(extras, name) == \E i \in 1..Len(extras) : extras[i][1] = name
ExtrasAt(extras, name) == extras[CHOOSE i \in 1..Len(extras) : extras[i][1] = name][2]
\* extras.setdefault(name, text)
setdefault(extras, name, text) ==
  IF ExtrasHas(extras, name) THEN extras ELSE Append(extras, <<name, text>>)

\* line 238: a parameter, or the components.parameters entry it refers to
resolved_param(p, all_params) ==
  IF Has(p, "$ref")
  THEN GetOr(all_params, LastSegment(GetOr(p, "$ref", Str("")).v), Dict(<<>>))
  ELSE p

\* line 239 without the test of the location
is_in_param_anywhere(p) == IsStr(Get(p, "in"))

\* line 239
is_in_param(p) == IsStr(Get(p, "in")) /\ Get(p, "in").v \in {"path", "query", "header"}

\* lines 236-239: the operation's parameters located in path, query or header
in_params_of(op, all_params) ==
  LET ps == GetOr(op, "parameters", List(<<>>)).v
  IN  SelectSeq([i \in 1..Len(ps) |-> resolved_param(ps[i], all_params)], is_in_param)

\* the wrapper names built from the operationId as it stands, without the
\* rewriting of lines 39-43
wrapper_name_unnormalized(operation_id, suffix) == to_camel(operation_id) \o suffix

\* the wrapper names of an operation (lines 251, 255, 270; 195-196)
wrapper_name(operation_id, suffix) == to_camel(normalize_operation_id(operation_id)) \o suffix

\* lines 254-268: the request type once the body type is known; a composite
\* message is registered unless its name is already in extras
with_params(rname, in_params, body_type, st) ==
  IF Len(in_params) > 0
  THEN [ok |-> TRUE, req_type |-> rname,
        extras |-> IF ExtrasHas(st.extras, rname) THEN st.extras
                   ELSE Append(st.extras, <<rname, composite_message(rname, in_params, body_type)>>),
        enums |-> st.enums, nested |-> st.nested]
  ELSE [ok |-> TRUE, req_type |-> body_type, extras |-> st.extras,
        enums |-> st.enums, nested |-> st.nested]

\* lines 244-253: the body type; the result is [ok, body_type, extras, enums, nested]
body_type_of(bname, body_schema, spec, st) ==
  IF IsDict(body_schema) /\ Has(body_schema, "$ref") THEN
    Let(resolve_ref(At(body_schema, "$ref").v, spec), LAMBDA r :
      [ok |-> r.ok,
       body_type |-> IF is_freeform_object(r.node) THEN "google.protobuf.Struct"
                     ELSE LastSegment(At(body_schema, "$ref").v),
       extras |-> st.extras, enums |-> st.enums, nested |-> st.nested])
  ELSE IF is_freeform_object(body_schema) THEN
    [ok |-> TRUE, body_type |-> "google.protobuf.Struct",
     extras |-> st.extras, enums |-> st.enums, nested |-> st.nested]
  ELSE
    \* the argument of setdefault is evaluated before the lookup
    Let(generate_message_from_schema(bname, body_schema, spec, st.enums, st.nested), LAMBDA m :
      [ok |-> m.ok, body_type |-> bname,
       extras |-> IF m.ok THEN setdefault(st.extras, bname, m.text) ELSE st.extras,
       enums |-> m.enums, nested |-> m.nested])

\* REQUEST TYPE, lines 242-274.  st = [extras, enums, nested]; the result adds
\* ok (FALSE when resolve_ref raises) and req_type
request_type_of(operation_id, in_params, b, spec, st) ==
  IF ~b.ok
  THEN [ok |-> FALSE, req_type |-> "", extras |-> st.extras,
        enums |-> st.enums, nested |-> st.nested]
  ELSE IF Truthy(b.schema) THEN
    Let(body_type_of(wrapper_name(operation_id, "Body"), b.schema, spec, st), LAMBDA t :
      IF ~t.ok
      THEN [ok |-> FALSE, req_type |-> "", extras |-> t.extras,
            enums |-> t.enums, nested |-> t.nested]
      ELSE with_params(wrapper_name(operation_id, "Request"), in_params, t.body_type, t))
  ELSE IF Len(in_params) > 0 THEN
    [ok |-> TRUE, req_type |-> wrapper_name(operation_id, "Request"),
     extras |-> setdefault(st.extras, wrapper_name(operation_id, "Request"),
                           generate_param_message(wrapper_name(operation_id, "Request"),
                                                  in_params)),
     enums |-> st.enums, nested |-> st.nested]
  ELSE [ok |-> TRUE, req_type |-> "Empty", extras |-> st.extras,
        enums |-> st.enums, nested |-> st.nested]

request_type(op, spec, all_params, st) ==
  request_type_of(At(op, "operationId").v, in_params_of(op, all_params),
                  extract_body_schema(op, spec), spec, st)

\* RESPONSE TYPE, lines 277-285, on the state the request left; e is what
\* extract_response_schema returned
response_type_of(e, spec, st) ==
  IF ~e.ok
  THEN [ok |-> FALSE, res_type |-> "", extras |-> st.extras,
        enums |-> st.enums, nested |-> st.nested]
  ELSE IF Truthy(e.inline) THEN
    IF StrEq(Get(e.inline, "type"), "array") THEN
      [ok |-> TRUE, res_type |-> e.res_type,
       extras |-> setdefault(st.extras, e.res_type,
                             array_wrapper(e.res_type, array_item_type(e.inline))),
       enums |-> st.enums, nested |-> st.nested]
    ELSE
      Let(generate_message_from_schema(e.res_type, e.inline, spec, st.enums, st.nested),
          LAMBDA m :
        [ok |-> m.ok, res_type |-> IF m.ok THEN e.res_type ELSE "",
         extras |-> IF m.ok THEN setdefault(st.extras, e.res_type, m.text) ELSE st.extras,
         enums |-> m.enums, nested |-> m.nested])
  ELSE [ok |-> TRUE, res_type |-> e.res_type, extras |-> st.extras,
        enums |-> st.enums, nested |-> st.nested]

response_type(op, spec, st) == response_type_of(extract_response_schema(op, spec), spec, st)

\* line 291 with put and patch left out of the test
body_rule_post_only(method) ==
  IF method = "post" THEN "      body: \"body\"" ELSE "      body: \"*\""

\* the body rule of the HTTP binding, line 291
body_rule(method) ==
  IF method \in {"post", "put", "patch"} THEN "      body: \"body\"" ELSE "      body: \"*\""

\* RPC Definition, lines 288-293
rpc_lines(rpc, req_type, res_type, method, path) ==
  << "  rpc " \o rpc \o " (" \o req_type \o ") returns (" \o res_type \o ") {",
     "    option (google.api.http) = {",
     "      " \o method \o ": \"" \o path \o "\"",
     body_rule(method),
     "    };",
     "  }" >>

\* the tag-grouping loop, lines 220-224: entries is the flattened sequence of
\* <<path, m, op>> in path-map order, tm the tag_map built so far as a
\* sequence of [tag, ops] in first-appearance order; ok is FALSE when
\* op.get("tags", [base])[0] raises
RECURSIVE path_entries(_)
path_entries(paths) ==
  IF Len(paths) = 0 THEN <<>>
  ELSE LET path == Head(paths)[1].v
           meths == Head(paths)[2].v
       IN  [i \in 1..Len(meths) |-> <<path, meths[i][1].v, meths[i][2]>>]
             \o path_entries(Tail(paths))

tag_map_add(tm, tag, entry) ==
  IF \E i \in 1..Len(tm) : tm[i].tag = tag
  THEN [i \in 1..Len(tm) |->
          IF tm[i].tag = tag THEN [tm[i] EXCEPT !.ops = Append(@, entry)] ELSE tm[i]]
  ELSE Append(tm, [tag |-> tag, ops |-> <<entry>>])

RECURSIVE group_by_tag(_, _, _)
group_by_tag(acc, entries, base) ==
  IF Len(entries) = 0 \/ ~acc.ok THEN acc
  ELSE
    LET e == Head(entries)
        method == Lower(e[2])
        tags == GetOr(e[3], "tags", List(<<Str(base)>>))
    IN  IF method \notin {"get", "post", "put", "patch", "delete"}
        THEN group_by_tag(acc, Tail(entries), base)
        ELSE IF tags.t # "l" \/ Len(tags.v) = 0
        THEN [acc EXCEPT !.ok = FALSE]
        ELSE Let([acc EXCEPT !.tm = tag_map_add(@, tags.v[1].v, <<e[1], method, e[3]>>)],
                 LAMBDA a : group_by_tag(a, Tail(entries), base))

build_tag_map(spec, base) ==
  group_by_tag([ok |-> TRUE, tm |-> <<>>], path_entries(GetOr(spec, "paths", Dict(<<>>)).v), base)

\* line 229
service_header(tag) == "service " \o sanitize_tag(tag) \o "Service {"

\* One operation of the loop of lines 230-293: st = [extras, enums, nested];
\* the result adds ok, req_type, res_type and the rpc's lines
operation_result(entry, q, r) ==
  IF ~q.ok \/ ~r.ok
  THEN [ok |-> FALSE, req_type |-> "", res_type |-> "", rpc |-> <<>>,
        extras |-> r.extras, enums |-> r.enums, nested |-> r.nested]
  ELSE [ok |-> TRUE, req_type |-> q.req_type, res_type |-> r.res_type,
        rpc |-> rpc_lines(At(entry[3], "operationId").v, q.req_type, r.res_type,
                          entry[2], entry[1]),
        extras |-> r.extras, enums |-> r.enums, nested |-> r.nested]

\* the loop body with an absent operationId printed as the text None, in
\* place of the exception that normalize_operation_id raises at line 234
process_operation_placeholder(entry, spec, all_params, st) ==
  Let(IF IsStr(Get(entry[3], "operationId")) THEN entry
      ELSE <<entry[1], entry[2],
             Dict(SelectSeq(entry[3].v, LAMBDA e : e[1] # Str("operationId"))
                    \o << <<Str("operationId"), Str("None")>> >>)>>,
      LAMBDA named :
    Let(request_type(named[3], spec, all_params, st), LAMBDA q :
      IF ~q.ok THEN operation_result(named, q, q)
      ELSE Let(response_type(named[3], spec, q), LAMBDA r : operation_result(named, q, r))))

process_operation(entry, spec, all_params, st) ==
  IF ~IsStr(Get(entry[3], "operationId"))
  THEN [ok |-> FALSE, req_type |-> "", res_type |-> "", rpc |-> <<>>,
        extras |-> st.extras, enums |-> st.enums, nested |-> st.nested]
  ELSE
    Let(request_type(entry[3], spec, all_params, st), LAMBDA q :
      IF ~q.ok THEN operation_result(entry, q, q)
      ELSE Let(response_type(entry[3], spec, q), LAMBDA r : operation_result(entry, q, r)))

(* ------------------------------------------ assembly and deduplication *)

\* lines 305-313
header(pkg) ==
  << "syntax = \"proto3\";",
     "package " \o pkg \o ";",
     "import \"google/protobuf/empty.proto\";",
     "import \"google/protobuf/struct.proto\";",
     "import \"google/api/http.proto\";",
     "import \"google/api/annotations.proto\";",
     "", "message Empty {}", "" >>

\* does the block's first line declare a message or an enum (line 322)
declares(first) == StartsWith(first, "message ") \/ StartsWith(first, "enum ")

\* the iteration without the continue of line 324
dedup_block_keeps_all(acc, b) ==
  IF declares(FirstLine(b))
  THEN [seen |-> acc.seen \cup {Tokens(FirstLine(b))[2]}, unique |-> Append(acc.unique, b)]
  ELSE [acc EXCEPT !.unique = Append(@, b)]

\* One iteration of the loop of lines 320-326; acc = [seen, unique]
dedup_block(acc, b) ==
  IF declares(FirstLine(b)) THEN
    Let(Tokens(FirstLine(b))[2], LAMBDA nm :
      IF nm \in acc.seen THEN acc
      ELSE [seen |-> acc.seen \cup {nm}, unique |-> Append(acc.unique, b)])
  ELSE [acc EXCEPT !.unique = Append(@, b)]

RECURSIVE dedup(_, _)
dedup(acc, blocks) ==
  IF Len(blocks) = 0 THEN acc
  ELSE Let(dedup_block(acc, Head(blocks)), LAMBDA a : dedup(a, Tail(blocks)))

\* list(extras.values())
extras_values(extras) == [i \in 1..Len(extras) |-> extras[i][2]]

\* line 317
all_blocks_of(schemas, nested, extras, services) ==
  schemas \o nested \o extras_values(extras) \o services

(* ------------------------------------------- the compiler as a function *)

\* the loop of lines 230-293 over the operations of one tag;
\* acc = [ok, lines, extras, enums, nested]
RECURSIVE service_rpcs(_, _, _, _)
service_rpcs(acc, ops, spec, all_params) ==
  IF Len(ops) = 0 \/ ~acc.ok THEN acc
  ELSE Let(process_operation(Head(ops), spec, all_params,
                             [extras |-> acc.extras, enums |-> acc.enums,
                              nested |-> acc.nested]),
           LAMBDA r :
         service_rpcs([ok |-> r.ok, lines |-> acc.lines \o r.rpc, extras |-> r.extras,
                       enums |-> r.enums, nested |-> r.nested],
                      Tail(ops), spec, all_params))

\* the loop of lines 227-295 over the tag map;
\* acc = [ok, services, extras, enums, nested]
RECURSIVE service_blocks(_, _, _, _)
service_blocks(acc, tm, spec, all_params) ==
  IF Len(tm) = 0 \/ ~acc.ok THEN acc
  ELSE Let(service_rpcs([ok |-> TRUE, lines |-> <<service_header(Head(tm).tag)>>,
                         extras |-> acc.extras, enums |-> acc.enums, nested |-> acc.nested],
                        Head(tm).ops, spec, all_params),
           LAMBDA s :
         service_blocks([ok |-> s.ok,
                         services |-> IF s.ok
                                      THEN Append(acc.services, Join(Append(s.lines, "}"), "\n"))
                                      ELSE acc.services,
                         extras |-> s.extras, enums |-> s.enums, nested |-> s.nested],
                        Tail(tm), spec, all_params))

\* generate_services on the registries enums and nested
generate_services(spec, base, enums, nested) ==
  Let(build_tag_map(spec, base), LAMBDA t :
    IF ~t.ok
    THEN [ok |-> FALSE, services |-> <<>>, extras |-> <<>>, enums |-> enums, nested |-> nested]
    ELSE service_blocks([ok |-> TRUE, services |-> <<>>, extras |-> <<>>,
                         enums |-> enums, nested |-> nested],
                        t.tm, spec, components_of(spec, "parameters")))

\* generate_proto in a process in which nothing was compiled before: the
\* registries are empty at line 315; ok is FALSE when an exception leaves it
generate_proto(spec, pkg, base) ==
  Let(generate_schema_messages(spec, {}, <<>>), LAMBDA m :
    IF ~m.ok THEN [ok |-> FALSE, text |-> ""]
    ELSE Let(generate_services(spec, base, m.enums, m.nested), LAMBDA g :
      IF ~g.ok THEN [ok |-> FALSE, text |-> ""]
      ELSE [ok |-> TRUE,
            text |-> Join(header(pkg)
                            \o dedup([seen |-> {}, unique |-> <<>>],
                                     all_blocks_of(m.msgs, g.nested, g.extras, g.services)).unique,
                          "\n")]))

(* ------------------------------------------------------ input documents *)

\* constructors of parsed YAML
kv(k, v) == <<Str(k), v>>
ty(t) == Dict(<<kv("type", Str(t))>>)
ref(target) == Dict(<<kv("$ref", Str(target))>>)
schema_ref(name) == ref("#/components/schemas/" \o name)
object(props) == Dict(<<kv("type", Str("object")), kv("properties", Dict(props))>>)
enum_of(vals) ==
  Dict(<<kv("type", Str("string")), kv("enum", List([i \in 1..Len(vals) |-> Str(vals[i])]))>>)
array_of(items) == Dict(<<kv("type", Str("array")), kv("items", items)>>)
json(schema) == Dict(<<kv("application/json", Dict(<<kv("schema", schema)>>))>>)
with_content(content) == Dict(<<kv("description", Str("ok")), kv("content", content)>>)
param(name, where, schema) ==
  Dict(<<kv("name", Str(name)), kv("in", Str(where)), kv("schema", schema)>>)

\* components.schemas entries
OrderSchema ==
  object(<< kv("id", ty("string")),
            kv("status", enum_of(<<"new", "in-progress">>)),
            kv("items", array_of(schema_ref("Item"))),
            kv("meta", Dict(<<kv("type", Str("object")),
                              kv("additionalProperties", ty("integer"))>>)),
            kv("update", schema_ref("OrderUpdate")) >>)
ItemSchema == object(<<kv("sku", ty("string")), kv("qty", ty("integer")), kv("price", ty("number"))>>)
OrderUpdateSchema == object(<<kv("note", ty("string")), kv("done", ty("boolean"))>>)
StatusSchema == enum_of(<<"active", "closed">>)
TagsSchema == array_of(ty("string"))
BlobSchema == ty("object")
EmptySchema == object(<<kv("reason", ty("string"))>>)
NoValuesSchema == enum_of(<<>>)
\* a schema that refers to itself, to a schema that refers back to it and to
\* the freeform schema, with properties that carry more than one marker and
\* properties of a type outside the table or of no type
NodeSchema ==
  object(<< kv("next", schema_ref("Node")),
            kv("owner", schema_ref("Owner")),
            kv("payload", schema_ref("Blob")),
            kv("parts", array_of(schema_ref("Blob"))),
            kv("mode", Dict(<<kv("type", Str("array")), kv("items", ty("integer")),
                              kv("enum", List(<<Str("a"), Str("b")>>))>>)),
            kv("link", Dict(<<kv("$ref", Str("#/components/schemas/Item")),
                              kv("enum", List(<<Str("x")>>))>>)),
            kv("shape", Dict(<<kv("type", Str("array")), kv("items", ty("integer")),
                               kv("$ref", Str("#/components/schemas/Item"))>>)),
            kv("bag", Dict(<<kv("type", Str("array")), kv("items", ty("number")),
                             kv("additionalProperties", ty("integer"))>>)),
            kv("raw", ty("file")),
            kv("any", Dict(<<kv("description", Str("anything"))>>)),
            kv("extra", ty("object")),
            kv("flags", Dict(<<kv("type", Str("object")),
                               kv("additionalProperties", Bool(TRUE))>>)) >>)
OwnerSchema == object(<<kv("node", schema_ref("Node"))>>)

\* the catalogues the documents draw components.schemas from
Catalogues ==
  { << kv("Status", StatusSchema), kv("Order", OrderSchema), kv("Tags", TagsSchema),
       kv("Blob", BlobSchema), kv("Item", ItemSchema), kv("OrderUpdate", OrderUpdateSchema),
       kv("Node", NodeSchema), kv("Owner", OwnerSchema), kv("Loop", schema_ref("Loop")) >>,
    << kv("Order", OrderSchema), kv("Status", StatusSchema), kv("Item", ItemSchema),
       kv("OrderUpdate", OrderUpdateSchema), kv("Blob", BlobSchema),
       kv("Kind", NoValuesSchema) >>,
    << kv("Empty", EmptySchema), kv("Order", OrderSchema), kv("Item", ItemSchema),
       kv("OrderUpdate", OrderUpdateSchema), kv("Blob", BlobSchema) >>,
    << kv("Order", OrderSchema), kv("Item", ItemSchema) >> }

\* components.parameters
Parameters ==
  << kv("limit", param("limit", "query", ty("integer"))),
     kv("trace", param("x-trace", "header", ty("string"))) >>

operation(id, tags, params, rest) ==
  Dict((IF Len(tags) > 0 THEN <<kv("tags", List([i \in 1..Len(tags) |-> Str(tags[i])]))>> ELSE <<>>)
       \o <<kv("operationId", Str(id))>>
       \o (IF Len(params) > 0 THEN <<kv("parameters", List(params))>> ELSE <<>>)
       \o rest)
body(content) == kv("requestBody", Dict(<<kv("content", content)>>))
responses(rs) == kv("responses", Dict(rs))
code(c, r) == <<Str(c), r>>
icode(c, r) == <<IntV(c), r>>
no_content == Dict(<<kv("description", Str("none"))>>)

\* the path items the documents draw paths from: <<path, path item>>
PathItems ==
  { kv("/orders/{id}", Dict(<<
      kv("get", operation("getOrderById", <<"orders">>,
           <<param("id", "path", ty("string"))>>,
           <<responses(<<code("200", with_content(json(schema_ref("Order"))))>>)>>)) >>)),
    kv("/orders/{orderId}", Dict(<<
      kv("put", operation("updateOrder", <<"orders">>,
           <<param("orderId", "path", ty("string")), param("session", "cookie", ty("string")),
             ref("#/components/parameters/trace")>>,
           <<body(json(schema_ref("OrderUpdate"))),
             responses(<<icode(200, schema_ref("Order"))>>)>>)) >>)),
    kv("/items", Dict(<<
      kv("get", operation("listItems", <<"item-api", "orders">>,
           <<ref("#/components/parameters/limit"), param("session", "cookie", ty("string"))>>,
           <<responses(<<code("404", with_content(json(ty("string")))),
                         code("200", with_content(json(array_of(schema_ref("Item"))))),
                         code("default", with_content(json(schema_ref("Item"))))>>)>>)) >>)),
    kv("/items/new", Dict(<<
      kv("post", operation("create_item", <<>>, <<>>,
           <<body(json(object(<<kv("name", ty("string")),
                                kv("kind", enum_of(<<"big", "small">>))>>))),
             responses(<<icode(201, no_content)>>)>>)),
      kv("put", operation("createItem", <<>>, <<>>,
           <<body(json(object(<<kv("color", enum_of(<<"red">>)),
                                kv("item", enum_of(<<"one">>))>>))),
             responses(<<icode(201, no_content)>>)>>)) >>)),
    kv("/blob", Dict(<<
      kv("get", operation("getBlob", <<"item-api">>, <<>>,
           <<responses(<<code("200", with_content(json(schema_ref("Blob"))))>>)>>)),
      kv("patch", operation("patchBlob", <<"item-api">>,
           <<param("filter", "query", schema_ref("Blob"))>>,
           <<body(json(schema_ref("Blob"))), responses(<<>>)>>)) >>)),
    kv("/blob/raw", Dict(<<
      kv("get", operation("retrieveBlob", <<"orders">>,
           <<param("session", "cookie", ty("string"))>>,
           <<responses(<<code("2XX", no_content), icode(200, schema_ref("Blob"))>>)>>)) >>)),
    kv("/ping", Dict(<<
      kv("get", operation("ping", <<>>, <<>>,
           <<responses(<<code("200", Dict(<<>>)),
                         code("default", with_content(json(object(<<kv("msg", ty("string"))>>))))>>)>>)) >>)),
    kv("/tags", Dict(<<
      kv("parameters", List(<<ref("#/components/parameters/trace")>>)),
      kv("head", operation("headTags", <<"orders">>, <<>>, <<responses(<<>>)>>)),
      kv("GET", operation("listTags", <<"orders">>, <<>>,
           <<responses(<<code("default", with_content(json(array_of(ty("integer")))))>>)>>)),
      kv("delete", operation("dropTags", <<"Orders">>, <<>>,
           <<body(json(BlobSchema)), responses(<<code("500", no_content)>>)>>)) >>)),
    kv("/tags/all", Dict(<<
      kv("get", operation("list_tags", <<"orders">>,
           <<ref("#/components/parameters/missing")>>,
           <<responses(<<code("200", with_content(json(object(<<kv("count", ty("integer"))>>))))>>)>>)) >>)),
    kv("/orders/{id}/retrieve", Dict(<<
      kv("post", operation("retrieveOrderById", <<"orders">>,
           <<param("id", "path", ty("integer"))>>,
           <<body(json(schema_ref("OrderUpdate"))),
             responses(<<icode(200, with_content(json(array_of(ty("string")))))>>)>>)) >>)),
    kv("/upload/{id}", Dict(<<
      kv("post", operation("uploadFile", <<"files">>,
           <<param("id", "path", ty("string"))>>,
           <<body(Dict(<<kv("multipart/form-data", Dict(<<kv("schema", ty("string"))>>))>>)),
             responses(<<icode(204, no_content)>>)>>)) >>)),
    kv("/noid", Dict(<<
      kv("get", Dict(<<kv("tags", List(<<Str("orders")>>)),
                       responses(<<code("200", no_content)>>)>>)) >>)),
    kv("/untagged", Dict(<<
      kv("get", Dict(<<kv("tags", List(<<>>)), kv("operationId", Str("untagged")),
                       responses(<<code("200", no_content)>>)>>)) >>)) }

\* the documents: a catalogue, the parameters, and up to MaxPaths path items
\* with pairwise distinct paths, in any order
MaxPaths == 2

RECURSIVE PathLists(_)
PathLists(n) ==
  IF n = 0 THEN {<<>>}
  ELSE LET shorter == PathLists(n - 1)
       IN  shorter \cup
           {Append(ps, item) : <<ps, item>> \in
              {<<ps, item>> \in shorter \X PathItems :
                 /\ Len(ps) = n - 1
                 /\ \A i \in 1..Len(ps) : ps[i][1] # item[1]}}

Document(catalogue, paths) ==
  Dict(<< kv("openapi", Str("3.0.0")),
          kv("components", Dict(<<kv("schemas", Dict(catalogue)),
                                  kv("parameters", Dict(Parameters))>>)),
          kv("paths", Dict(paths)) >>)

Documents == {Document(c, ps) : c \in Catalogues, ps \in PathLists(MaxPaths)}

\* main's defaults for --package and --service
Pkg == "api"
Base == "Default"

(* -------------------------------------------------------- state machine *)

\* The number of generate_proto calls made on the document in one process
MaxCalls == 2

VARIABLES
  spec,               \* the parsed document handed to generate_proto
  pc,                 \* where generate_proto is: idle, schemas, tagmap, ops,
                      \* assemble, done (returned) or raised (an exception left it)
  calls,              \* generate_proto calls started so far
  enums_defined,      \* module global, line 9
  nested_enum_defs,   \* module global, line 10
  schemas,            \* generate_proto's local schemas
  tag_map,            \* generate_services: tag_map as a sequence of [tag, ops]
  ti, oi,             \* generate_services: the tag and the operation the loops are at
  lines,              \* generate_services: the lines of the service being built
  services,           \* generate_services: services
  extras,             \* generate_services: extras
  entry,              \* generate_services: <<path, method, op>> of the operation just
                      \* processed, <<>> before the first
  req_type, res_type, \* generate_services: the types of the operation just processed
  seen,               \* generate_proto: the dedup name set
  proto,              \* the text the last completed call returned
  prev,               \* the text the completed call before it returned
  raw_proto_content,  \* ai-proto-generator.py, line 191: the reply to clean up
  proto_content       \* ai-proto-generator.py, line 208: <<the cleaned text>>, <<>> before

vars == <<spec, pc, calls, enums_defined, nested_enum_defs, schemas, tag_map, ti, oi,
          lines, services, extras, entry, req_type, res_type, seen, proto, prev,
          raw_proto_content, proto_content>>

Init ==
  /\ raw_proto_content = ""
  /\ proto_content = <<>>
  /\ spec \in Documents
  /\ pc = "idle"
  /\ calls = 0
  /\ enums_defined = {}
  /\ nested_enum_defs = <<>>
  /\ schemas = <<>>
  /\ tag_map = <<>>
  /\ ti = 1
  /\ oi = 1
  /\ lines = <<>>
  /\ services = <<>>
  /\ extras = <<>>
  /\ entry = <<>>
  /\ req_type = ""
  /\ res_type = ""
  /\ seen = {}
  /\ proto = ""
  /\ prev = ""

\* generate_proto is called (lines 301-313): the globals are cleared; the
\* locals of the call are fresh
\* a call that leaves out lines 302-303, the clearing of the two registries
Call_without_clear ==
  /\ UNCHANGED <<raw_proto_content, proto_content>>
  /\ pc \in {"idle", "done", "raised"}
  /\ calls < MaxCalls
  /\ calls' = calls + 1
  /\ pc' = "schemas"
  /\ schemas' = <<>>
  /\ tag_map' = <<>>
  /\ ti' = 1
  /\ oi' = 1
  /\ lines' = <<>>
  /\ services' = <<>>
  /\ extras' = <<>>
  /\ entry' = <<>>
  /\ req_type' = ""
  /\ res_type' = ""
  /\ seen' = {}
  /\ prev' = proto
  /\ UNCHANGED <<spec, proto, enums_defined, nested_enum_defs>>

Call ==
  /\ UNCHANGED <<raw_proto_content, proto_content>>
  /\ pc \in {"idle", "done", "raised"}
  /\ calls < MaxCalls
  /\ calls' = calls + 1
  /\ pc' = "schemas"
  /\ enums_defined' = {}
  /\ nested_enum_defs' = <<>>
  /\ schemas' = <<>>
  /\ tag_map' = <<>>
  /\ ti' = 1
  /\ oi' = 1
  /\ lines' = <<>>
  /\ services' = <<>>
  /\ extras' = <<>>
  /\ entry' = <<>>
  /\ req_type' = ""
  /\ res_type' = ""
  /\ seen' = {}
  /\ prev' = proto
  /\ UNCHANGED <<spec, proto>>

\* line 315: schemas = generate_schema_messages(spec)
GenerateSchemaMessages ==
  /\ UNCHANGED <<raw_proto_content, proto_content>>
  /\ pc = "schemas"
  /\ \E r \in {generate_schema_messages(spec, enums_defined, nested_enum_defs)} :
         /\ schemas' = r.msgs
         /\ enums_defined' = r.enums
         /\ nested_enum_defs' = r.nested
         /\ pc' = IF r.ok THEN "tagmap" ELSE "raised"
  /\ UNCHANGED <<spec, calls, tag_map, ti, oi, lines, services, extras, entry, req_type,
                 res_type, seen, proto, prev>>

\* generate_services, lines 217-229: the tag map is built and the first
\* service opened
BuildTagMap ==
  /\ UNCHANGED <<raw_proto_content, proto_content>>
  /\ pc = "tagmap"
  /\ \E t \in {build_tag_map(spec, Base)} :
         /\ tag_map' = t.tm
         /\ pc' = IF ~t.ok THEN "raised" ELSE IF Len(t.tm) = 0 THEN "assemble" ELSE "ops"
         /\ lines' = IF t.ok /\ Len(t.tm) > 0 THEN <<service_header(t.tm[1].tag)>> ELSE <<>>
  /\ ti' = 1
  /\ oi' = 1
  /\ UNCHANGED <<spec, calls, enums_defined, nested_enum_defs, schemas, services, extras,
                 entry, req_type, res_type, seen, proto, prev>>

\* generate_services, lines 230-295: one operation; after the last operation
\* of a tag the service is closed and the next one opened
ProcessOperation ==
  /\ UNCHANGED <<raw_proto_content, proto_content>>
  /\ pc = "ops"
  /\ \E r \in {process_operation(tag_map[ti].ops[oi], spec, components_of(spec, "parameters"),
                                   [extras |-> extras, enums |-> enums_defined,
                                    nested |-> nested_enum_defs])} :
     LET last == oi = Len(tag_map[ti].ops)
         more == ti < Len(tag_map)
     IN  /\ entry' = tag_map[ti].ops[oi]
         /\ extras' = r.extras
         /\ enums_defined' = r.enums
         /\ nested_enum_defs' = r.nested
         /\ req_type' = r.req_type
         /\ res_type' = r.res_type
         /\ IF ~r.ok
            THEN /\ pc' = "raised"
                 /\ UNCHANGED <<ti, oi, lines, services>>
            ELSE /\ pc' = IF last /\ ~more THEN "assemble" ELSE "ops"
                 /\ oi' = IF last THEN 1 ELSE oi + 1
                 /\ ti' = IF last THEN ti + 1 ELSE ti
                 /\ services' = IF last THEN Append(services, Join((lines \o r.rpc) \o <<"}">>, "\n"))
                                ELSE services
                 /\ lines' = IF ~last THEN lines \o r.rpc
                             ELSE IF more THEN <<service_header(tag_map[ti + 1].tag)>>
                             ELSE <<>>
  /\ UNCHANGED <<spec, calls, schemas, tag_map, seen, proto, prev>>

\* generate_proto, lines 317-328: deduplication and the returned text
Assemble ==
  /\ UNCHANGED <<raw_proto_content, proto_content>>
  /\ pc = "assemble"
  /\ \E d \in {dedup([seen |-> {}, unique |-> <<>>],
                       all_blocks_of(schemas, nested_enum_defs, extras, services))} :
         /\ seen' = d.seen
         /\ proto' = Join(header(Pkg) \o d.unique, "\n")
  /\ pc' = "done"
  /\ UNCHANGED <<spec, calls, enums_defined, nested_enum_defs, schemas, tag_map, ti, oi,
                 lines, services, extras, entry, req_type, res_type, prev>>

Next ==
  \/ Call
  \/ GenerateSchemaMessages
  \/ BuildTagMap
  \/ ProcessOperation
  \/ Assemble

Spec == Init /\ [][Next]_vars

\* generate_proto is one sequential function: once called, it goes on until
\* it returns or raises; nothing obliges a caller to call. A call is running
\* at the positions schemas, tagmap, ops and assemble. Each step of a running
\* call moves it on, to another position or, in the loops of lines 230-231,
\* to the next operation or the next tag; fairness is stated for that move,
\* on the position alone.
Running == pc \in {"schemas", "tagmap", "ops", "assemble"}
Advance ==
  /\ Running
  /\ pc' \in {"tagmap", "ops", "assemble", "done", "raised"}
  /\ ti' \in {ti, ti + 1}
  /\ oi' \in {1, oi + 1}
FairSpec == Spec /\ WF_<<pc, ti, oi>>(Advance)

(* ------------------------------------- documents of a catalogue alone *)

\* components.schemas entries for each test of generate_schema_messages
\* (lines 128, 133, 140 and the else of 143), with the markers of two tests
\* on one schema: an array with enum, an object without properties with
\* enum, an array with properties; an array without items; an object with
\* additionalProperties only; properties without a type; a reference
SchemaEntries ==
  { kv("Status", StatusSchema),
    kv("Codes", Dict(<<kv("type", Str("array")), kv("items", ty("integer")),
                       kv("enum", List(<<Str("a")>>))>>)),
    kv("Flags", Dict(<<kv("type", Str("object")), kv("enum", List(<<Str("on"), Str("off")>>))>>)),
    kv("Tags", TagsSchema),
    kv("Items", array_of(schema_ref("Item"))),
    kv("Bare", ty("array")),
    kv("Wide", Dict(<<kv("type", Str("array")), kv("items", ty("number")),
                      kv("properties", Dict(<<kv("n", ty("integer"))>>))>>)),
    kv("Blob", BlobSchema),
    kv("Map", Dict(<<kv("type", Str("object")), kv("additionalProperties", ty("string"))>>)),
    kv("Plain", Dict(<<kv("properties", Dict(<<kv("status", enum_of(<<"x">>))>>))>>)),
    kv("Order", OrderSchema),
    kv("Item", ItemSchema),
    kv("Alias", schema_ref("Item")) }

\* The number of entries of components.schemas
MaxSchemas == 2

\* the lists of at most n entries of a pool with pairwise distinct keys, in
\* any order: the items of a mapping
RECURSIVE KeyedLists(_, _)
KeyedLists(pool, n) ==
  IF n = 0 THEN {<<>>}
  ELSE LET shorter == KeyedLists(pool, n - 1)
       IN  shorter \cup
           {Append(xs, item) : <<xs, item>> \in
              {<<xs, item>> \in shorter \X pool :
                 /\ Len(xs) = n - 1
                 /\ \A i \in 1..Len(xs) : xs[i][1] # item[1]}}

SchemaDocuments == {Document(c, <<>>) : c \in KeyedLists(SchemaEntries, MaxSchemas)}

\* no reply of the text-generation service is at hand
NoReply == raw_proto_content = "" /\ proto_content = <<>>

\* the process before the first call of generate_proto
NothingCalled ==
  /\ pc = "idle"
  /\ calls = 0
  /\ enums_defined = {}
  /\ nested_enum_defs = <<>>
  /\ schemas = <<>>
  /\ tag_map = <<>>
  /\ ti = 1
  /\ oi = 1
  /\ lines = <<>>
  /\ services = <<>>
  /\ extras = <<>>
  /\ entry = <<>>
  /\ req_type = ""
  /\ res_type = ""
  /\ seen = {}
  /\ proto = ""
  /\ prev = ""

\* generate_proto on a document without paths: the loops of generate_services
\* have nothing to go through
SchemaInit == spec \in SchemaDocuments /\ NothingCalled /\ NoReply
SchemaNext ==
  \/ Call
  \/ GenerateSchemaMessages
  \/ BuildTagMap
  \/ Assemble
SchemaSpec == SchemaInit /\ [][SchemaNext]_vars

(* ------------------------------------ documents of one catalogue and paths *)

\* the catalogue of these documents: every reference of its schemas and of
\* the operations below resolves in it
ServiceCatalogue ==
  << kv("Order", OrderSchema), kv("Item", ItemSchema), kv("OrderUpdate", OrderUpdateSchema),
     kv("Blob", BlobSchema) >>

\* path items for the loops of generate_services (lines 220-224, 230-293):
\* operations with and without operationId, tags, parameters and body, under
\* each of the five methods and under other keys
ServiceItems ==
  { kv("/orders/{id}", Dict(<<
      kv("get", operation("retrieveOrder", <<"orders">>,
           <<param("id", "path", ty("string"))>>,
           <<responses(<<code("200", with_content(json(object(<<kv("a", ty("string"))>>))))>>)>>)) >>)),
    kv("/orders", Dict(<<
      kv("get", operation("getOrder", <<"orders">>,
           <<param("q", "query", ty("integer"))>>,
           <<responses(<<code("200", with_content(json(object(<<kv("b", ty("integer"))>>))))>>)>>)),
      kv("post", operation("createOrder", <<"orders">>, <<>>,
           <<body(json(schema_ref("Order"))),
             responses(<<code("201", with_content(json(schema_ref("Order"))))>>)>>)) >>)),
    kv("/noid", Dict(<<
      kv("post", Dict(<<kv("tags", List(<<Str("orders")>>)),
                        body(json(schema_ref("Order"))),
                        responses(<<code("200", no_content)>>)>>)) >>)),
    kv("/nullid", Dict(<<
      kv("get", Dict(<<kv("operationId", None), responses(<<code("200", no_content)>>)>>)) >>)),
    kv("/body/{body}", Dict(<<
      kv("put", operation("replaceBody", <<"orders">>,
           <<param("body", "path", ty("string"))>>,
           <<body(json(object(<<kv("note", ty("string"))>>))), responses(<<>>)>>)) >>)),
    kv("/twice/{id}", Dict(<<
      kv("get", operation("findTwice", <<>>,
           <<param("id", "path", ty("string")), param("id", "query", ty("integer")),
             param("x-id", "header", ty("string")), param("x_id", "query", ty("string"))>>,
           <<responses(<<code("200", no_content)>>)>>)) >>)),
    kv("/users", Dict(<<
      kv("parameters", List(<<ref("#/components/parameters/trace")>>)),
      kv("head", operation("headUsers", <<"user-api">>, <<>>, <<responses(<<>>)>>)),
      kv("options", operation("optionsUsers", <<"user-api">>, <<>>, <<responses(<<>>)>>)),
      kv("GET", operation("listUsers", <<"user-api">>, <<>>,
           <<responses(<<code("200", with_content(json(array_of(ty("string")))))>>)>>)),
      kv("delete", operation("dropUsers", <<"user api">>, <<>>,
           <<responses(<<icode(204, no_content)>>)>>)) >>)),
    kv("/users/me", Dict(<<
      kv("patch", operation("patchUser", <<"user api", "orders">>, <<>>,
           <<responses(<<code("200", no_content)>>)>>)) >>)),
    kv("/untagged", Dict(<<
      kv("get", Dict(<<kv("tags", List(<<>>)), kv("operationId", Str("untagged")),
                       responses(<<code("200", no_content)>>)>>)) >>)),
    kv("/ping", Dict(<<
      kv("get", operation("ping", <<>>, <<>>, <<responses(<<code("200", no_content)>>)>>)),
      kv("post", operation("pong", <<"Default">>, <<>>,
           <<body(json(object(<<kv("msg", ty("string"))>>))),
             responses(<<code("200", no_content)>>)>>)) >>)),
    kv("/dash", Dict(<<
      kv("get", operation("dash", <<"--">>, <<>>, <<responses(<<code("200", no_content)>>)>>)),
      kv("put", operation("dot", <<"..">>, <<param("n", "query", ty("integer"))>>,
           <<responses(<<code("200", no_content)>>)>>)) >>)) }

ServiceDocuments ==
  {Document(ServiceCatalogue, ps) : ps \in KeyedLists(ServiceItems, MaxPaths)}

\* generate_proto on these documents
ServiceInit == spec \in ServiceDocuments /\ NothingCalled /\ NoReply
ServiceSpec == ServiceInit /\ [][Next]_vars

(* --------------------------------- several documents in one process *)

\* documents for calls that follow each other in one process: some whose
\* text depends on which enum names are registered, one whose compilation
\* raises in generate_schema_messages after an enum was registered, one
\* whose compilation raises in generate_services after an enum was registered
ProcessDocuments ==
  { Document(<<kv("Order", OrderSchema), kv("Status", StatusSchema)>>, <<>>),
    Document(<<kv("Status", StatusSchema), kv("Order", OrderSchema)>>, <<>>),
    Document(<<kv("Kind", NoValuesSchema), kv("Item", ItemSchema)>>, <<>>),
    Document(<<kv("Order", OrderSchema), kv("Alias", schema_ref("Missing"))>>, <<>>),
    Document(ServiceCatalogue,
             << kv("/items/new", Dict(<<
                  kv("post", operation("create_item", <<>>, <<>>,
                       <<body(json(object(<<kv("name", ty("string")),
                                            kv("kind", enum_of(<<"big", "small">>))>>))),
                         responses(<<icode(201, no_content)>>)>>)) >>)),
                kv("/noid", Dict(<<
                  kv("get", Dict(<<kv("tags", List(<<Str("orders")>>)),
                                   responses(<<code("200", no_content)>>)>>)) >>)) >>),
    Document(ServiceCatalogue,
             << kv("/kinds", Dict(<<
                  kv("put", operation("putKind", <<"kinds">>, <<>>,
                       <<body(json(object(<<kv("kind", enum_of(<<"a">>)),
                                            kv("status", enum_of(<<"b">>))>>))),
                         responses(<<>>)>>)) >>)) >>),
    Document(<<kv("Item", ItemSchema)>>,
             << kv("/untagged", Dict(<<
                  kv("get", Dict(<<kv("tags", List(<<>>)), kv("operationId", Str("untagged")),
                                   responses(<<code("200", no_content)>>)>>)) >>)) >>) }

\* generate_proto is called on the document doc (lines 301-313): the globals
\* are cleared, the locals of the call are fresh
\* a call on doc that leaves out line 303, the clearing of nested_enum_defs
CallOn_keeping_nested(doc) ==
  /\ UNCHANGED <<raw_proto_content, proto_content>>
  /\ pc \in {"idle", "done", "raised"}
  /\ calls < MaxCalls
  /\ calls' = calls + 1
  /\ spec' = doc
  /\ pc' = "schemas"
  /\ enums_defined' = {}
  /\ schemas' = <<>>
  /\ tag_map' = <<>>
  /\ ti' = 1
  /\ oi' = 1
  /\ lines' = <<>>
  /\ services' = <<>>
  /\ extras' = <<>>
  /\ entry' = <<>>
  /\ req_type' = ""
  /\ res_type' = ""
  /\ seen' = {}
  /\ prev' = proto
  /\ UNCHANGED <<proto, nested_enum_defs>>

CallOn(doc) ==
  /\ UNCHANGED <<raw_proto_content, proto_content>>
  /\ pc \in {"idle", "done", "raised"}
  /\ calls < MaxCalls
  /\ calls' = calls + 1
  /\ spec' = doc
  /\ pc' = "schemas"
  /\ enums_defined' = {}
  /\ nested_enum_defs' = <<>>
  /\ schemas' = <<>>
  /\ tag_map' = <<>>
  /\ ti' = 1
  /\ oi' = 1
  /\ lines' = <<>>
  /\ services' = <<>>
  /\ extras' = <<>>
  /\ entry' = <<>>
  /\ req_type' = ""
  /\ res_type' = ""
  /\ seen' = {}
  /\ prev' = proto
  /\ UNCHANGED proto

\* a process that calls generate_proto on one document after another
ProcessInit == spec \in ProcessDocuments /\ NothingCalled /\ NoReply
CallNext == \E doc \in ProcessDocuments : CallOn(doc)
ProcessNext ==
  \/ CallNext
  \/ GenerateSchemaMessages
  \/ BuildTagMap
  \/ ProcessOperation
  \/ Assemble
ProcessSpec == ProcessInit /\ [][ProcessNext]_vars

(* ------------------------------- ai-proto-generator.py: the reply cleanup *)

\* The fence of a code block, three grave accents in the source.  A string
\* of this language cannot hold the grave accent; the apostrophe stands for
\* it here: like it, it is neither a word character nor whitespace, and no
\* reply below has it anywhere else.
Fence == "'''"

\* str.find(needle, start): the first index at or after start at which
\* needle occurs in s, 0 if there is none (indices from 1)
find(s, needle, start) ==
  LET at == {i \in start..(Len(s) - Len(needle) + 1) : SubSeq(s, i, i + Len(needle) - 1) = needle}
  IN  IF at = {} THEN 0 ELSE Nth(at, 1)

\* str.strip(): leading and trailing whitespace removed
strip(s) ==
  LET keep == {i \in 1..Len(s) : Char(s, i) \notin (SpaceSet \cup {"\f"})}
  IN  IF keep = {} THEN "" ELSE SubSeq(s, Nth(keep, 1), Nth(keep, Cardinality(keep)))

\* the group (.*?) of a match whose opening fence ends before index from: the
\* text up to the next fence; no match without one
fenced_from(s, from) ==
  Let(find(s, Fence, from), LAMBDA close :
    IF close = 0 THEN [found |-> FALSE, group |-> ""]
    ELSE [found |-> TRUE, group |-> SubSeq(s, from, close - 1)])

\* re.search of fence, label, newline, (.*?), fence with re.DOTALL, lines 20
\* and 21: the leftmost opening fence; one without a closing fence after it
\* gives no match, and then no later one has a closing fence either
search_labelled(label, s) ==
  Let(find(s, Fence \o label \o "\n", 1), LAMBDA open :
    IF open = 0 THEN [found |-> FALSE, group |-> ""]
    ELSE fenced_from(s, open + Len(label) + 4))

\* the index after the opening fence (fence, (?:\w+)?, newline) that starts
\* at i, 0 if none starts there
RECURSIVE word_end(_, _)
word_end(s, i) ==
  IF i <= Len(s) /\ Char(s, i) \in (AlnumSet \cup {"_"}) THEN word_end(s, i + 1) ELSE i
generic_open(s, i) ==
  IF SubSeq(s, i, i + 2) # Fence THEN 0
  ELSE Let(word_end(s, i + 3), LAMBDA e :
         IF e <= Len(s) /\ Char(s, e) = "\n" THEN e + 1 ELSE 0)

\* re.search of fence, (?:\w+)?, newline, (.*?), fence with re.DOTALL, line 22
search_generic(s) ==
  LET opens == {i \in 1..(Len(s) - 3) : generic_open(s, i) # 0}
  IN  IF opens = {} THEN [found |-> FALSE, group |-> ""]
      ELSE fenced_from(s, generic_open(s, Nth(opens, 1)))

\* the cleanup that takes the first fenced block of the text whatever its label
clean_proto_content_in_text_order(raw_content) ==
  Let(search_generic(raw_content), LAMBDA match_generic :
    IF match_generic.found THEN strip(match_generic.group) ELSE strip(raw_content))

\* clean_proto_content, lines 9-33
clean_proto_content(raw_content) ==
  Let(search_labelled("protobuf", raw_content), LAMBDA match :
    IF match.found THEN strip(match.group)
    ELSE Let(search_labelled("proto", raw_content), LAMBDA match1 :
      IF match1.found THEN strip(match1.group)
      ELSE Let(search_generic(raw_content), LAMBDA match_generic :
        IF match_generic.found THEN strip(match_generic.group)
        ELSE strip(raw_content))))

\* The number of parts a reply is made of
MaxParts == 3

\* the parts of a reply: fenced blocks of each label, of another label and of
\* none, a fence that is not closed, one whose label is followed by a blank,
\* prose and line ends
ReplyParts ==
  { Fence \o "protobuf\n message P {}\n" \o Fence,
    Fence \o "proto\nmessage Q {}\n" \o Fence,
    Fence \o "\nG \n" \o Fence,
    Fence \o "yaml\nY: 1\n" \o Fence,
    Fence \o "proto\nmessage U {}",
    Fence \o "proto \nS\n" \o Fence,
    " Here it is:\n", "\n", Fence \o " x" }

RECURSIVE Replies(_)
Replies(n) ==
  IF n = 0 THEN {""} ELSE Replies(n - 1) \cup {r \o part : r \in Replies(n - 1), part \in ReplyParts}

\* ai-proto-generator.py, lines 191-208: the reply is there, nothing is
\* cleaned yet; the compiler is not called
CleanInit ==
  /\ spec = Document(<<>>, <<>>)
  /\ NothingCalled
  /\ raw_proto_content \in Replies(MaxParts)
  /\ proto_content = <<>>

\* lines 207-208: proto_content = clean_proto_content(raw_proto_content), for
\* a reply that is not empty
CleanProtoContent ==
  /\ raw_proto_content # ""
  /\ proto_content = <<>>
  /\ proto_content' = <<clean_proto_content(raw_proto_content)>>
  /\ UNCHANGED <<spec, pc, calls, enums_defined, nested_enum_defs, schemas, tag_map, ti, oi,
                 lines, services, extras, entry, req_type, res_type, seen, proto, prev,
                 raw_proto_content>>

CleanNext == CleanProtoContent
CleanSpec == CleanInit /\ [][CleanNext]_vars

(* ------------------------------------------------------------- properties *)

\* the call in progress has left generate_services, or has raised: schemas,
\* nested_enum_defs and extras, which only grow during a call, are final
Emitted == pc \in {"assemble", "raised"}

\* an operation has been processed by the call in progress and did not raise
Processed == entry # <<>> /\ pc \in {"ops", "assemble", "done"}

\* the operations of the document, in path-map order
Operations == SelectSeq(path_entries(GetOr(spec, "paths", Dict(<<>>)).v),
                        LAMBDA e : Lower(e[2]) \in {"get", "post", "put", "patch", "delete"})

\* the name a declaration line declares
DeclName(line) == Tokens(line)[2]
IsDeclaration(line) == StartsWith(line, "message ") \/ StartsWith(line, "enum ")
\* the declaration lines of a text, top to bottom
Declarations(text) == SelectSeq(Split(text, "\n"), IsDeclaration)

\* the member lines of a block (between its first line and its closing brace)
Members(block) == Let(Split(block, "\n"), LAMBDA ls : SubSeq(ls, 2, Len(ls) - 1))
\* the tag, the name and the type of a field or enum member line
LineTag(line) ==
  Let(Tokens(line), LAMBDA t : ParseInt(SubSeq(t[Len(t)], 1, Len(t[Len(t)]) - 1)))
LineName(line) == Let(Tokens(line), LAMBDA t : t[Len(t) - 2])
LineType(line) == Let(Tokens(line), LAMBDA t : Join(SubSeq(t, 1, Len(t) - 3), " "))
MemberNames(block) == Let(Members(block), LAMBDA ms : [i \in 1..Len(ms) |-> LineName(ms[i])])
MemberTags(block) == Let(Members(block), LAMBDA ms : [i \in 1..Len(ms) |-> LineTag(ms[i])])

\* the schema names that the request body, the response or the response's
\* items of an operation refer to
RefName(x) == IF IsDict(x) /\ Has(x, "$ref") THEN {LastSegment(At(x, "$ref").v)} ELSE {}
JsonSchemaOf(x) ==
  IF IsDict(x) THEN find_json_schema(GetOr(x, "content", Dict(<<>>))) ELSE None
ReferencedBy(op) ==
  RefName(JsonSchemaOf(Get(op, "requestBody")))
    \cup RefName(select_response(op))
    \cup RefName(JsonSchemaOf(select_response(op)))
    \cup (IF IsDict(JsonSchemaOf(select_response(op)))
          THEN RefName(Get(JsonSchemaOf(select_response(op)), "items")) ELSE {})

Catalogue == components_of(spec, "schemas")

\* C1: in the returned text every message or enum name is declared by at most
\* one block, the header's Empty included, and a (non-freeform) components
\* schema referenced by two or more operations is declared exactly once.
C1_EachNameDeclaredOnce ==
  pc = "done" =>
    Let(Declarations(proto), LAMBDA ds :
      /\ \A i, j \in 1..Len(ds) : i # j => DeclName(ds[i]) # DeclName(ds[j])
      /\ \A k \in 1..Len(Catalogue.v) :
           LET n == Catalogue.v[k][1].v
           IN  (/\ ~is_freeform_object(Catalogue.v[k][2])
                /\ Cardinality({o \in 1..Len(Operations) : n \in ReferencedBy(Operations[o][3])}) >= 2)
               => Cardinality({i \in 1..Len(ds) : DeclName(ds[i]) = n}) = 1)

\* the field names generate_message_from_schema is to give a schema's properties
PropNames(schema) ==
  Let(deref(schema, spec).node, LAMBDA node :
    IF IsDict(node) /\ Truthy(Get(node, "properties"))
    THEN [i \in 1..Len(At(node, "properties").v) |-> safe_name(At(node, "properties").v[i][1].v)]
    ELSE <<>>)
\* the field names of a message synthesized from a schema: an array gets the
\* one-field wrapper
SchemaFieldNames(schema) ==
  IF IsDict(schema) /\ StrEq(Get(schema, "type"), "array") THEN <<"items">> ELSE PropNames(schema)
\* the field names of the parameters
ParamNames(params) == [i \in 1..Len(params) |-> safe_name(At(params[i], "name").v)]

\* the fields of a message block, top to bottom: the name and the tag of each
FieldsOf(block) ==
  Let(Members(block), LAMBDA ms :
    [k \in 1..Len(ms) |->
       Let(Tokens(ms[k]), LAMBDA t :
         [name |-> t[Len(t) - 2],
          tag |-> ParseInt(SubSeq(t[Len(t)], 1, Len(t[Len(t)]) - 1))])])


\* the resolved parameters of an operation located in path, query or header
KeptParams(op) ==
  LET ps == GetOr(op, "parameters", List(<<>>)).v
  IN  SelectSeq([i \in 1..Len(ps) |-> resolved_param(ps[i], components_of(spec, "parameters"))],
                LAMBDA p : IsStr(Get(p, "in")) /\ Get(p, "in").v \in {"path", "query", "header"})

\* the operation is a source of the extras message name with these field names
\* (wrappers holds the <OperationId>Request, <OperationId>Body and
\* <OperationId>Response names of the operation)
IsSourceOf(op, wrappers, name, names) ==
  LET params == KeptParams(op)
      b == extract_body_schema(op, spec).schema
      r == JsonSchemaOf(select_response(op))
  IN  \/ /\ name = wrappers[1]
         /\ names = ParamNames(params) \o (IF Truthy(b) THEN <<"body">> ELSE <<>>)
      \/ /\ name = wrappers[2]
         /\ Truthy(b)
         /\ names = PropNames(b)
      \/ /\ name = wrappers[3]
         /\ Truthy(r)
         /\ names = SchemaFieldNames(r)

\* C3: in every message of schemas and extras the field tags, top to bottom,
\* are 1, 2, ..., k, and the fields are in the declaration order of the
\* properties or parameters of the schema or operation the message was made from.
C3_DenseTagsInSourceOrder ==
  Emitted =>
  /\ \A i \in 1..Len(schemas) :
       StartsWith(schemas[i], "message ") =>
         Let(FieldsOf(schemas[i]), LAMBDA fs :
           /\ \A k \in 1..Len(fs) : fs[k].tag = k
           /\ [k \in 1..Len(fs) |-> fs[k].name]
                = SchemaFieldNames(At(Catalogue, DeclName(FirstLine(schemas[i])))))
  /\ Let(Operations, LAMBDA ops :
       Let([o \in 1..Len(ops) |->
              IF IsStr(Get(ops[o][3], "operationId"))
              THEN Let(wrapper_name(At(ops[o][3], "operationId").v, ""), LAMBDA camel :
                     <<camel \o "Request", camel \o "Body", camel \o "Response">>)
              ELSE <<>>],
           LAMBDA wrappers :
         \A i \in 1..Len(extras) :
           Let(FieldsOf(extras[i][2]), LAMBDA fs :
             /\ StartsWith(extras[i][2], "message ") => \A k \in 1..Len(fs) : fs[k].tag = k
             /\ \E o \in 1..Len(ops) :
                  /\ wrappers[o] # <<>>
                  /\ IsSourceOf(ops[o][3], wrappers[o], extras[i][1],
                                [k \in 1..Len(fs) |-> fs[k].name]))))

\* a five-field schema message with one property of each shape, and a
\* composite request message of two parameters and the body, have been emitted
C3_Witness ==
  /\ pc = "assemble"
  /\ \E i \in 1..Len(schemas) :
       MemberNames(schemas[i]) = <<"id", "status", "items", "meta", "update">>
  /\ \E i \in 1..Len(extras) :
       MemberNames(extras[i][2]) = <<"orderId", "x_trace", "body">>

\* the enums a document can give rise to: <<name, literals>> of the top-level
\* enum schemas and of the enum properties of a schema
PropEnums(schema) ==
  Let(deref(schema, spec).node, LAMBDA node :
    IF IsDict(node) /\ Truthy(Get(node, "properties"))
    THEN {<<Capitalize(safe_name(kvp[1].v)), At(kvp[2], "enum").v>> :
            kvp \in {At(node, "properties").v[i] : i \in
                       {j \in 1..Len(At(node, "properties").v) :
                          /\ IsDict(At(node, "properties").v[j][2])
                          /\ ~IsNone(Get(At(node, "properties").v[j][2], "enum"))}}}
    ELSE {})
EnumSources ==
  {<<Catalogue.v[k][1].v, At(Catalogue.v[k][2], "enum").v>> :
     k \in {j \in 1..Len(Catalogue.v) : ~IsNone(Get(Catalogue.v[j][2], "enum"))}}
  \cup UNION {PropEnums(Catalogue.v[k][2]) : k \in 1..Len(Catalogue.v)}
  \cup Let(Operations, LAMBDA ops :
         UNION {PropEnums(JsonSchemaOf(Get(ops[o][3], "requestBody"))) : o \in 1..Len(ops)}
         \cup UNION {PropEnums(JsonSchemaOf(select_response(ops[o][3]))) : o \in 1..Len(ops)})

EnumBlocks == SelectSeq(schemas \o nested_enum_defs, LAMBDA b : StartsWith(b, "enum "))

\* C4: every emitted enum has exactly one member with tag 0, which is its
\* first member and is named <NAME>_UNSPECIFIED; the literals of the enum it
\* was made from follow, upper-cased and sanitized, with tags 1..N in source order.
C4_EnumSentinelThenLiterals ==
  Emitted =>
  Let(EnumBlocks, LAMBDA blocks :
  Let(IF Len(blocks) = 0 THEN {} ELSE EnumSources, LAMBDA sources :
  \A i \in 1..Len(blocks) :
    Let(Members(blocks[i]), LAMBDA ms :
      LET name == DeclName(FirstLine(blocks[i]))
      IN  /\ Len(ms) >= 1
          /\ ms[1] = "  " \o Upper(name) \o "_UNSPECIFIED = 0;"
          /\ \A k \in 1..Len(ms) : LineTag(ms[k]) = k - 1
          /\ \E src \in sources :
               /\ src[1] = name
               /\ Len(src[2]) = Len(ms) - 1
               /\ \A k \in 1..Len(src[2]) :
                    Tokens(ms[k + 1])[1] = Upper(safe_name(src[2][k].v)))))

\* an enum of two literals and an enum of none have been emitted
C4_Witness ==
  /\ pc = "assemble"
  /\ \E i \in 1..Len(EnumBlocks) : EnumBlocks[i] = "enum Kind {\n  KIND_UNSPECIFIED = 0;\n}"
  /\ \E i \in 1..Len(EnumBlocks) :
       EnumBlocks[i] = "enum Status {\n  STATUS_UNSPECIFIED = 0;\n  NEW = 1;\n  IN_PROGRESS = 2;\n}"

\* the response the specification takes as the modeled one: the first entry
\* with a status code in [200, 300), else the default entry, else None
ModeledResponse(op) ==
  LET rs == GetOr(op, "responses", Dict(<<>>))
      S == {i \in 1..Len(rs.v) : is_2xx(rs.v[i][1])}
  IN  IF S # {} THEN rs.v[Nth(S, 1)][2] ELSE Get(rs, "default")

\* the components schema a schema refers to, None when it is not a reference
\* into the catalogue
ReferencedSchema(schema) ==
  IF IsDict(schema) /\ Has(schema, "$ref") /\ Has(Catalogue, LastSegment(At(schema, "$ref").v))
  THEN At(Catalogue, LastSegment(At(schema, "$ref").v))
  ELSE None

OpId(op) == At(op, "operationId").v

\* C2: when the JSON schema of the modeled response is a reference to a
\* non-freeform components schema S, the return type is S and no
\* <OperationId>Response is registered; getOrderById with the path parameter
\* id:string gets the request GetOrderByIdRequest { string id = 1; } and returns Order.
C2_DirectReferenceReturnsSchema ==
  Processed =>
    LET op == entry[3]
        schema == JsonSchemaOf(ModeledResponse(op))
    IN  (/\ IsDict(ReferencedSchema(schema))
         /\ ~is_freeform_object(ReferencedSchema(schema)))
        => /\ res_type = LastSegment(At(schema, "$ref").v)
           /\ ~ExtrasHas(extras, wrapper_name(OpId(op), "Response"))
           /\ (OpId(op) = "getOrderById" =>
                 /\ res_type = "Order"
                 /\ req_type = "GetOrderByIdRequest"
                 /\ ExtrasHas(extras, "GetOrderByIdRequest")
                 /\ Members(ExtrasAt(extras, "GetOrderByIdRequest")) = <<"  string id = 1;">>)

\* the body type the specification resolves: Struct for a freeform body, the
\* referenced name for a reference, <OperationId>Body for an inline body
ResolvedBodyType(op) ==
  LET b == JsonSchemaOf(Get(op, "requestBody"))
  IN  IF IsDict(ReferencedSchema(b))
      THEN IF is_freeform_object(ReferencedSchema(b)) THEN "google.protobuf.Struct"
           ELSE LastSegment(At(b, "$ref").v)
      ELSE IF is_freeform_object(b) THEN "google.protobuf.Struct"
      ELSE wrapper_name(OpId(op), "Body")

\* C5: an operation with at least one path/query/header parameter and a
\* request body has the request type <OperationId>Request, whose fields are
\* the kept parameters with tags 1..n in parameter order and then one field
\* body, of the resolved body type, with tag n+1.
C5_ParametersThenBody ==
  Processed =>
    LET op == entry[3]
        n == Len(KeptParams(op))
        name == wrapper_name(OpId(op), "Request")
    IN  (n >= 1 /\ Truthy(Get(op, "requestBody")))
        => /\ req_type = name
           /\ ExtrasHas(extras, name)
           /\ MemberNames(ExtrasAt(extras, name)) = ParamNames(KeptParams(op)) \o <<"body">>
           /\ MemberTags(ExtrasAt(extras, name)) = [i \in 1..(n + 1) |-> i]
           /\ LineType(Members(ExtrasAt(extras, name))[n + 1]) = ResolvedBodyType(op)

\* the modeled response of the operation carries an inline JSON schema of type array
HasArrayResponse(op) ==
  /\ IsStr(Get(op, "operationId"))
  /\ IsDict(ModeledResponse(op))
  /\ ~Has(ModeledResponse(op), "$ref")
  /\ IsDict(JsonSchemaOf(ModeledResponse(op)))
  /\ StrEq(Get(JsonSchemaOf(ModeledResponse(op)), "type"), "array")

\* the one field of the wrapper of an array schema
ItemsField(schema) == "  repeated " \o array_item_type(schema) \o " items = 1;"

\* C6 as stated: for an operation whose modeled response has an inline JSON
\* schema of type array the return type is <OperationId>Response and that
\* message has the only field repeated T items = 1.
C6_ArrayResponseAlwaysWrapped ==
  (Processed /\ HasArrayResponse(entry[3])) =>
    LET name == wrapper_name(OpId(entry[3]), "Response")
    IN  /\ res_type = name
        /\ ExtrasHas(extras, name)
        /\ Members(ExtrasAt(extras, name)) = <<ItemsField(JsonSchemaOf(ModeledResponse(entry[3])))>>

\* the operations the call in progress processed before the one in entry, in
\* processing order (tag by tag)
RECURSIVE OpsOfTags(_)
OpsOfTags(tm) == IF Len(tm) = 0 THEN <<>> ELSE Head(tm).ops \o OpsOfTags(Tail(tm))
EarlierOps ==
  Let(OpsOfTags(SubSeq(tag_map, 1, ti - 1))
        \o (IF ti <= Len(tag_map) THEN SubSeq(tag_map[ti].ops, 1, oi - 1) ELSE <<>>),
      LAMBDA done : SubSeq(done, 1, Len(done) - 1))
\* an earlier operation of the call has the same wrapper name
NameTakenEarlier(name, suffix) ==
  \E k \in 1..Len(EarlierOps) : wrapper_name(OpId(EarlierOps[k][3]), suffix) = name

\* C6: for an operation whose modeled response has an inline JSON schema of
\* type array the return type is <OperationId>Response, a message registered
\* in extras; that message has the only field repeated T items = 1, T the
\* referenced item type or the mapped scalar, unless an operation processed
\* earlier in the call has the same <OperationId>Response name, whose message
\* is then the one registered.  No return type is a bare repeated type.
C6_ArrayResponseWrapped ==
  /\ (Processed /\ HasArrayResponse(entry[3])) =>
       LET name == wrapper_name(OpId(entry[3]), "Response")
       IN  /\ res_type = name
           /\ ExtrasHas(extras, name)
           /\ \/ Members(ExtrasAt(extras, name))
                   = <<ItemsField(JsonSchemaOf(ModeledResponse(entry[3])))>>
              \/ NameTakenEarlier(name, "Response")
  /\ ~StartsWith(res_type, "repeated")
  /\ pc = "assemble" =>
       \A i \in 1..Len(services) :
         Let(Split(services[i], "\n"), LAMBDA ls :
           \A k \in 1..Len(ls) :
             StartsWith(ls[k], "  rpc ") => ~Contains(ls[k], "returns (repeated"))

\* an array of referenced items and an array of scalars have been wrapped, the
\* second by an operation that found no message of its name
C6_Witness ==
  /\ pc = "assemble"
  /\ ExtrasHas(extras, "ListItemsResponse")
  /\ ExtrasAt(extras, "ListItemsResponse") = "message ListItemsResponse {\n  repeated Item items = 1;\n}"
  /\ ExtrasHas(extras, "ListTagsResponse")
  /\ ExtrasAt(extras, "ListTagsResponse") = "message ListTagsResponse {\n  repeated int32 items = 1;\n}"
  /\ Len(services) >= 1

\* C7: the second of two calls on the same document, package and default
\* service name returns the string the first returned; at the start of each
\* call the enum registry, the nested-enum list, the extras registry and the
\* dedup name set are empty.
C7_SecondCallReturnsTheSame ==
  /\ (pc = "done" /\ calls >= 2) => proto = prev
  /\ pc = "schemas" =>
       enums_defined = {} /\ nested_enum_defs = <<>> /\ extras = <<>> /\ seen = {}

\* a second call has returned, after both calls filled every registry
C7_Witness ==
  /\ pc = "done"
  /\ calls = 2
  /\ prev # ""
  /\ enums_defined # {}
  /\ nested_enum_defs # <<>>
  /\ extras # <<>>
  /\ seen # {}

\* the return type the specification derives from a modeled response
ReturnTypeOf(op, m) ==
  IF ~IsDict(m) THEN "Empty"
  ELSE IF Has(m, "$ref") THEN referenced_response(At(m, "$ref").v, spec).res_type
  ELSE inline_response(OpId(op), JsonSchemaOf(m)).res_type

\* C8: the modeled response is the first entry of responses with a status
\* code in [200, 300), the default entry only when there is no such entry;
\* the return type is the one of that response, and it is Empty only when
\* there is no modeled response or it has no JSON content.
C8_FirstSuccessElseDefault ==
  Processed =>
    LET op == entry[3]
        m == ModeledResponse(op)
    IN  /\ res_type = ReturnTypeOf(op, m)
        /\ res_type = "Empty" => (~IsDict(m) \/ ~Truthy(JsonSchemaOf(m)))

\* C9: when the JSON schema of the modeled response is a reference to a
\* freeform components schema, the return type is google.protobuf.Struct and
\* no <OperationId>Response is registered.
C9_FreeformReferenceReturnsStruct ==
  Processed =>
    LET op == entry[3]
        schema == JsonSchemaOf(ModeledResponse(op))
    IN  is_freeform_object(ReferencedSchema(schema))
        => /\ res_type = "google.protobuf.Struct"
           /\ ~ExtrasHas(extras, wrapper_name(OpId(op), "Response"))

\* the operation has an operationId and no request body
HasNoBody(op) == IsStr(Get(op, "operationId")) /\ ~Has(op, "requestBody")

\* C10 as stated: an operation without a request body and with at least one
\* path/query/header parameter has the request type <OperationId>Request with
\* exactly one field per such parameter; with none it has the request type Empty.
C10_RequestOfParametersOnly ==
  (Processed /\ HasNoBody(entry[3])) =>
    LET op == entry[3]
        name == wrapper_name(OpId(op), "Request")
    IN  IF Len(KeptParams(op)) >= 1
        THEN /\ req_type = name
             /\ ExtrasHas(extras, name)
             /\ MemberNames(ExtrasAt(extras, name)) = ParamNames(KeptParams(op))
        ELSE req_type = "Empty"

\* C10: an operation without a request body and with at least one
\* path/query/header parameter has the request type <OperationId>Request, a
\* message registered in extras; that message has exactly one field per such
\* parameter, in parameter order, and none for a parameter located elsewhere,
\* unless an operation processed earlier in the call has the same
\* <OperationId>Request name, whose message is then the one registered.  With
\* no such parameter the request type is Empty and the operation registers no
\* <OperationId>Request.
C10_RequestWithoutBody ==
  (Processed /\ HasNoBody(entry[3])) =>
    LET op == entry[3]
        name == wrapper_name(OpId(op), "Request")
    IN  IF Len(KeptParams(op)) >= 1
        THEN /\ req_type = name
             /\ ExtrasHas(extras, name)
             /\ \/ MemberNames(ExtrasAt(extras, name)) = ParamNames(KeptParams(op))
                \/ NameTakenEarlier(name, "Request")
        ELSE /\ req_type = "Empty"
             /\ ExtrasHas(extras, name) => NameTakenEarlier(name, "Request")

\* an operation with a query and a cookie parameter got a request of the one
\* field, and an operation with a cookie parameter alone got Empty
C10_Witness ==
  /\ Processed
  /\ OpId(entry[3]) = "retrieveBlob"
  /\ req_type = "Empty"
  /\ ExtrasHas(extras, "ListItemsRequest")
  /\ ExtrasAt(extras, "ListItemsRequest") = "message ListItemsRequest {\n  int32 limit = 1;\n}"

\* the body type an operation was given: its request type when it has no
\* path/query/header parameter, else the type of the field body of its
\* request message, "" when that message has no such field
BodyTypeGiven(op) ==
  IF Len(KeptParams(op)) = 0 THEN req_type
  ELSE IF ~ExtrasHas(extras, req_type) THEN ""
  ELSE Let(Members(ExtrasAt(extras, req_type)), LAMBDA ms :
         IF Len(ms) >= 1 /\ LineName(ms[Len(ms)]) = "body" THEN LineType(ms[Len(ms)]) ELSE "")

\* C11: for an operation with a request body the body type is
\* google.protobuf.Struct, with no <OperationId>Body registered, when the body
\* schema is freeform; the referenced name, with no <OperationId>Body
\* registered, when it is a reference; otherwise <OperationId>Body, a message
\* registered in extras with the text generate_message_from_schema gives.
C11_BodyTypeOfEveryBody ==
  (Processed /\ Truthy(Get(entry[3], "requestBody"))) =>
    LET op == entry[3]
        b == JsonSchemaOf(Get(op, "requestBody"))
        bname == wrapper_name(OpId(op), "Body")
    IN  /\ BodyTypeGiven(op) = ResolvedBodyType(op)
        /\ IF ResolvedBodyType(op) = bname
           THEN /\ ExtrasHas(extras, bname)
                /\ ExtrasAt(extras, bname)
                     = generate_message_from_schema(bname, b, spec, {}, <<>>).text
           ELSE ~ExtrasHas(extras, bname)

\* the tag an operation is to be grouped by: its first declared tag, the
\* default name when it declares none
TagOf(op) ==
  IF Has(op, "tags") /\ At(op, "tags").t = "l" /\ Len(At(op, "tags").v) > 0
  THEN At(op, "tags").v[1].v
  ELSE Base
\* the positions in Operations at which a tag occurs for the first time
FirstOccurrencesIn(ops) ==
  Sorted({i \in 1..Len(ops) : \A j \in 1..(i - 1) : TagOf(ops[j][3]) # TagOf(ops[i][3])})
FirstOccurrences == FirstOccurrencesIn(Operations)
\* the groups of the document: tags in first-occurrence order, each with its
\* operations <<path, method, op>> in path-map order
ExpectedGroups ==
  Let(Operations, LAMBDA all :
    Let(FirstOccurrencesIn(all), LAMBDA firsts :
      [k \in 1..Len(firsts) |->
         Let(TagOf(all[firsts[k]][3]), LAMBDA tag :
           [tag |-> tag,
            ops |-> Let(SelectSeq(all, LAMBDA e : TagOf(e[3]) = tag),
                        LAMBDA es : [i \in 1..Len(es) |-> <<es[i][1], Lower(es[i][2]), es[i][3]>>])])]))
\* the tag with every non-alphanumeric character removed
Sanitized(tag) ==
  ConcatAll([i \in 1..Len(tag) |->
               IF Char(tag, i) \in CharsOf(LowerS \o UpperS \o DigitS) THEN Char(tag, i) ELSE ""])
\* the names of the rpcs of a service block, top to bottom
RpcNames(block) ==
  Let(SelectSeq(Split(block, "\n"), LAMBDA l : StartsWith(l, "  rpc ")),
      LAMBDA ls : [i \in 1..Len(ls) |-> Tokens(ls[i])[2]])

\* C12: the tag map built from the path map groups the operations by their
\* first declared tag, or by the default name when they declare none, the
\* groups in first-occurrence order and the operations of a group in path-map
\* order; each group becomes one service block named <SanitizedTag>Service,
\* in that order, with its rpcs in that order.
C12_GroupedByFirstTag ==
  /\ [][pc = "tagmap" => (pc' # "raised" /\ tag_map' = ExpectedGroups)]_vars
  /\ [](pc = "assemble" =>
          /\ Len(services) = Len(ExpectedGroups)
          /\ \A k \in 1..Len(services) :
               /\ FirstLine(services[k])
                    = "service " \o Sanitized(ExpectedGroups[k].tag) \o "Service {"
               /\ RpcNames(services[k])
                    = [i \in 1..Len(ExpectedGroups[k].ops) |-> OpId(ExpectedGroups[k].ops[i][3])])

\* the lines an rpc's HTTP binding is to have, for the method as the path map
\* spells it and the path template
ExpectedBinding(method, path) ==
  << "    option (google.api.http) = {",
     "      " \o Lower(method) \o ": \"" \o path \o "\"",
     IF Lower(method) \in {"post", "put", "patch"}
       THEN "      body: \"body\"" ELSE "      body: \"*\"",
     "    };",
     "  }" >>

\* C13: in every service block each rpc line is followed by exactly one HTTP
\* binding: the lower-cased method with the unmodified path template, and the
\* body rule body: "body" for post, put and patch, body: "*" for get and delete.
C13_OneHttpBindingPerRpc ==
  pc = "assemble" =>
    Let(ExpectedGroups, LAMBDA groups :
    /\ Len(services) = Len(groups)
    /\ \A k \in 1..Len(services) :
         Let(Split(services[k], "\n"), LAMBDA ls :
           LET ops == groups[k].ops
           IN  /\ Len(ls) = 6 * Len(ops) + 2
               /\ \A i \in 1..Len(ops) :
                    /\ StartsWith(ls[6 * i - 4], "  rpc " \o OpId(ops[i][3]) \o " (")
                    /\ SubSeq(ls, 6 * i - 3, 6 * i + 1) = ExpectedBinding(ops[i][2], ops[i][1])))

\* services with a patch, a get spelled GET and a delete have been built
C13_Witness ==
  /\ pc = "assemble"
  /\ \E k \in 1..Len(services) :
       Contains(services[k], "      patch: \"/blob\"\n      body: \"body\"")
  /\ \E k \in 1..Len(services) :
       Contains(services[k], "      get: \"/tags\"\n      body: \"*\"")
  /\ \E k \in 1..Len(services) :
       Contains(services[k], "      delete: \"/tags\"\n      body: \"*\"")

\* the references of a parsed value: the targets of all its $ref entries
RECURSIVE RefsIn(_)
RefsIn(x) ==
  IF x.t = "d"
  THEN UNION {IF StrEq(x.v[i][1], "$ref") /\ IsStr(x.v[i][2]) THEN {x.v[i][2].v}
              ELSE RefsIn(x.v[i][2]) : i \in 1..Len(x.v)}
  ELSE IF x.t = "l" THEN UNION {RefsIn(x.v[i]) : i \in 1..Len(x.v)}
  ELSE {}
\* the references of the document that name a pointer with an absent segment
DanglingRefs == {r \in RefsIn(spec) : ~resolve_ref(r, spec).ok}

\* C14: a call on a document in which a reference names a pointer with an
\* absent segment never returns a text.
C14_DanglingReferenceRaises ==
  pc = "done" => DanglingRefs = {}

\* the schema is a reference to a freeform components schema
FreeformRef(x) == is_freeform_object(ReferencedSchema(x))
\* the names of the freeform components schemas
FreeformNames ==
  {Catalogue.v[k][1].v : k \in {j \in 1..Len(Catalogue.v) : is_freeform_object(Catalogue.v[j][2])}}
\* the properties of a components schema, as <<name, schema>> pairs
PropsOf(schema) ==
  IF IsDict(schema) /\ Truthy(Get(schema, "properties")) THEN At(schema, "properties").v ELSE <<>>

\* C15: a freeform components schema is declared by no block of the returned
\* text, and the type emitted where one is referenced is
\* google.protobuf.Struct: for a property and for the items of an array
\* property of a schema message, for a parameter of a request message, and
\* for the request body.
C15_FreeformIsStructEverywhere ==
  /\ pc = "done" =>
       \A i \in 1..Len(Declarations(proto)) : DeclName(Declarations(proto)[i]) \notin FreeformNames
  /\ Emitted =>
       \A i \in 1..Len(schemas) :
         StartsWith(schemas[i], "message ") =>
           Let(PropsOf(At(Catalogue, DeclName(FirstLine(schemas[i])))), LAMBDA props :
             \A k \in 1..Len(props) :
               /\ FreeformRef(props[k][2]) =>
                    LineType(Members(schemas[i])[k]) = "google.protobuf.Struct"
               /\ (IsDict(props[k][2]) /\ FreeformRef(Get(props[k][2], "items"))) =>
                    LineType(Members(schemas[i])[k]) = "repeated google.protobuf.Struct")
  /\ Processed =>
       /\ \A k \in 1..Len(KeptParams(entry[3])) :
            (/\ FreeformRef(Get(KeptParams(entry[3])[k], "schema"))
             /\ ExtrasHas(extras, req_type)
             /\ Len(Members(ExtrasAt(extras, req_type))) >= k)
            => LineType(Members(ExtrasAt(extras, req_type))[k]) = "google.protobuf.Struct"
       /\ FreeformRef(JsonSchemaOf(Get(entry[3], "requestBody")))
            => BodyTypeGiven(entry[3]) = "google.protobuf.Struct"

\* the names of the enums a schema's properties give rise to
PropEnumNames(schema) == {e[1] : e \in PropEnums(schema)}
\* the schema is one generate_message_from_schema is to be run on for an
\* extras message: not empty, not a reference, not freeform
IsInline(schema) ==
  Truthy(schema) /\ ~Has(schema, "$ref") /\ ~is_freeform_object(schema)

\* C16: a step of ProcessOperation (a step from pc = "ops") replaces no
\* message registered in extras, and runs no synthesis for a name that is
\* registered: the enums it adds to the enum registry, and the blocks it adds
\* to the nested-enum list, come from the inline body or inline response
\* whose name was not registered before the step.
C16_RegisteredNameNotResynthesized ==
  [][(pc = "ops" /\ pc' # "raised") =>
       LET op == entry'[3]
           b == JsonSchemaOf(Get(op, "requestBody"))
           r == JsonSchemaOf(select_response(op))
           fresh == (IF IsInline(b) /\ ~ExtrasHas(extras, wrapper_name(OpId(op), "Body"))
                     THEN PropEnumNames(b) ELSE {})
                      \cup
                    (IF IsInline(r) /\ ~StrEq(Get(r, "type"), "array")
                        /\ ~ExtrasHas(extras, wrapper_name(OpId(op), "Response"))
                     THEN PropEnumNames(r) ELSE {})
       IN  /\ SubSeq(extras', 1, Len(extras)) = extras
           /\ (enums_defined' \ enums_defined) \subseteq fresh
           /\ SubSeq(nested_enum_defs', 1, Len(nested_enum_defs)) = nested_enum_defs
           /\ \A i \in (Len(nested_enum_defs) + 1)..Len(nested_enum_defs') :
                DeclName(FirstLine(nested_enum_defs'[i])) \in fresh]_vars

\* the enum properties of a schema, in property order, as <<enum name, property schema>>
PropEnumSeq(schema) ==
  Let(PropsOf(deref(schema, spec).node), LAMBDA ps :
    SelectSeq([i \in 1..Len(ps) |-> <<Capitalize(safe_name(ps[i][1].v)), ps[i][2]>>],
              LAMBDA e : IsDict(e[2]) /\ ~IsNone(Get(e[2], "enum"))))
\* the producers of enums of the catalogue, in catalogue and property order
RECURSIVE CatalogueProducers(_)
CatalogueProducers(entries) ==
  IF Len(entries) = 0 THEN <<>>
  ELSE (LET name == Head(entries)[1].v
            schema == Head(entries)[2]
        IN  IF ~IsNone(Get(schema, "enum")) THEN << <<name, schema>> >>
            ELSE IF StrEq(Get(schema, "type"), "array") \/ is_freeform_object(schema) THEN <<>>
            ELSE PropEnumSeq(schema))
       \o CatalogueProducers(Tail(entries))
\* the producers of enums of the operations, in processing order: the inline
\* body, then the inline response that is not an array
RECURSIVE OperationProducers(_)
OperationProducers(ops) ==
  IF Len(ops) = 0 THEN <<>>
  ELSE (LET b == JsonSchemaOf(Get(Head(ops)[3], "requestBody"))
            r == JsonSchemaOf(select_response(Head(ops)[3]))
        IN  (IF IsInline(b) THEN PropEnumSeq(b) ELSE <<>>)
              \o (IF Truthy(r) /\ ~StrEq(Get(r, "type"), "array") THEN PropEnumSeq(r) ELSE <<>>))
       \o OperationProducers(Tail(ops))
Producers == CatalogueProducers(Catalogue.v) \o OperationProducers(OpsOfTags(tag_map))

\* C17: when all operations are processed, the enum blocks emitted have
\* pairwise distinct names, which are the names the producers of enums give;
\* the literals of each block are those of the first producer of its name,
\* whatever the literals of the later producers.
C17_FirstProducerDefinesEnum ==
  pc = "assemble" =>
    Let(Producers, LAMBDA ps :
    Let(EnumBlocks, LAMBDA blocks :
    Let([i \in 1..Len(blocks) |-> DeclName(FirstLine(blocks[i]))], LAMBDA names :
      /\ \A i, j \in 1..Len(blocks) : i # j => names[i] # names[j]
      /\ {names[i] : i \in 1..Len(blocks)} = {ps[k][1] : k \in 1..Len(ps)}
      /\ \A i \in 1..Len(blocks) :
           LET first == ps[Nth({k \in 1..Len(ps) : ps[k][1] = names[i]}, 1)][2]
               vals == At(first, "enum").v
           IN  SubSeq(MemberNames(blocks[i]), 2, Len(vals) + 1)
                 = [k \in 1..Len(vals) |-> Upper(safe_name(vals[k].v))]
               /\ Len(Members(blocks[i])) = Len(vals) + 1)))

\* the top-level enum Status (active, closed) was emitted and the property
\* status (new, in-progress) of a later schema produced the same name
C17_Witness ==
  /\ pc = "assemble"
  /\ \E i \in 1..Len(schemas) :
       schemas[i] = "enum Status {\n  STATUS_UNSPECIFIED = 0;\n  ACTIVE = 1;\n  CLOSED = 2;\n}"
  /\ Cardinality({k \in 1..Len(Producers) : Producers[k][1] = "Status"}) >= 2
  /\ \E k \in 1..Len(Producers) : Producers[k][1] = "Kind"

\* the blocks of a sequence, each kept unless an earlier block of the
\* sequence declares the message or enum name it declares
KeepFirst(blocks) ==
  Let([i \in 1..Len(blocks) |->
         Let(FirstLine(blocks[i]), LAMBDA first :
           IF IsDeclaration(first) THEN <<DeclName(first)>> ELSE <<>>)],
      LAMBDA declared :
    Let(Sorted({i \in 1..Len(blocks) :
                  \A j \in 1..(i - 1) : declared[i] = <<>> \/ declared[j] # declared[i]}),
        LAMBDA keep : [k \in 1..Len(keep) |-> blocks[keep[k]]]))
\* the static header
HeaderText ==
  "syntax = \"proto3\";\npackage " \o Pkg
    \o ";\nimport \"google/protobuf/empty.proto\";\nimport \"google/protobuf/struct.proto\";"
    \o "\nimport \"google/api/http.proto\";\nimport \"google/api/annotations.proto\";"
    \o "\n\nmessage Empty {}\n"
\* the text made of the header and the blocks
TextOf(blocks) == Join(<<HeaderText>> \o blocks, "\n")
\* the values of extras, in registration order
ExtrasBlocks == [i \in 1..Len(extras) |-> extras[i][2]]

\* C18 as stated: the returned text is the header, then the schema blocks,
\* then the extras, then the service blocks, each block kept unless an
\* earlier one declares its name.
C18_HeaderSchemasExtrasServices ==
  pc = "done" => proto = TextOf(KeepFirst(schemas \o ExtrasBlocks \o services))

\* C18: the returned text is the header, then the top-level schema blocks in
\* catalogue order, then the blocks of the nested-enum list, then the extras
\* in registration order, then the service blocks in builder order; of these
\* blocks the final pass drops those whose message or enum name an earlier
\* block declares and nothing else, so that no service block is dropped.
C18_BlocksInFixedOrder ==
  pc = "done" =>
    /\ proto = TextOf(KeepFirst(schemas \o nested_enum_defs \o ExtrasBlocks \o services))
    /\ \A k \in 1..Len(services) : ~IsDeclaration(FirstLine(services[k]))

\* a text with blocks of all four kinds was returned, from which the final
\* pass dropped the block of the enum Item
C18_Witness ==
  /\ pc = "done"
  /\ schemas # <<>> /\ extras # <<>> /\ services # <<>>
  /\ \E i \in 1..Len(nested_enum_defs) : StartsWith(nested_enum_defs[i], "enum Item {")
  /\ ~Contains(proto, "enum Item {")
  /\ Contains(proto, "enum Color {")

\* the fixed table of scalar types, string for any other or absent type
ScalarOf(t) ==
  IF StrEq(t, "integer") THEN "int32"
  ELSE IF StrEq(t, "number") THEN "double"
  ELSE IF StrEq(t, "boolean") THEN "bool"
  ELSE "string"
\* the type of the field of a property, by the first rule that matches:
\* enumerated value, reference, array, object with additionalProperties, scalar
ShapeOf(prop, val) ==
  IF ~IsDict(val) THEN "string"
  ELSE IF ~IsNone(Get(val, "enum")) THEN Capitalize(safe_name(prop))
  ELSE IF Has(val, "$ref") THEN LastSegment(At(val, "$ref").v)
  ELSE IF StrEq(Get(val, "type"), "array")
    THEN "repeated " \o (IF IsDict(Get(val, "items")) /\ Has(Get(val, "items"), "$ref")
                         THEN LastSegment(At(At(val, "items"), "$ref").v)
                         ELSE ScalarOf(Get(GetOr(val, "items", Dict(<<>>)), "type")))
  ELSE IF StrEq(Get(val, "type"), "object") /\ Has(val, "additionalProperties")
    THEN "map<string, " \o (IF IsDict(At(val, "additionalProperties"))
                            THEN ScalarOf(Get(At(val, "additionalProperties"), "type"))
                            ELSE "string") \o ">"
  ELSE ScalarOf(Get(val, "type"))

\* C19: in every message made from a components schema and in every
\* <OperationId>Body message, the type of the field of each property is the
\* one of the first matching rule in the order enumerated value, reference,
\* array, object with additionalProperties, scalar.
C19_ShapeByFirstMatchingRule ==
  Emitted =>
    /\ \A i \in 1..Len(schemas) :
         StartsWith(schemas[i], "message ") =>
           Let(At(Catalogue, DeclName(FirstLine(schemas[i]))), LAMBDA schema :
             ~StrEq(Get(schema, "type"), "array") =>
               Let(PropsOf(deref(schema, spec).node), LAMBDA props :
                 Let(Members(schemas[i]), LAMBDA ms :
                   /\ Len(ms) = Len(props)
                   /\ \A k \in 1..Len(props) :
                        LineType(ms[k]) = ShapeOf(props[k][1].v, props[k][2]))))
    /\ Let(Operations, LAMBDA ops :
         Let([o \in 1..Len(ops) |->
                IF IsStr(Get(ops[o][3], "operationId"))
                THEN <<wrapper_name(OpId(ops[o][3]), "Body")>> ELSE <<>>],
             LAMBDA bodies :
           \A i \in 1..Len(extras) :
             \A o \in 1..Len(ops) :
               bodies[o] = <<extras[i][1]>> =>
                 Let(PropsOf(JsonSchemaOf(Get(ops[o][3], "requestBody"))), LAMBDA props :
                   Let(Members(extras[i][2]), LAMBDA ms :
                     Len(ms) = Len(props) =>
                       \/ \A k \in 1..Len(props) :
                            LineType(ms[k]) = ShapeOf(props[k][1].v, props[k][2])
                       \/ \E p \in 1..Len(ops) : p # o /\ bodies[p] = bodies[o]))))

\* the message of a schema whose properties carry two markers, types outside
\* the table and no type has been emitted
C19_Witness ==
  /\ Emitted
  /\ \E i \in 1..Len(schemas) :
       Members(schemas[i])
         = << "  Node next = 1;", "  Owner owner = 2;", "  Blob payload = 3;",
              "  repeated Blob parts = 4;", "  Mode mode = 5;", "  Link link = 6;",
              "  Item shape = 7;", "  repeated double bag = 8;", "  string raw = 9;",
              "  string any = 10;", "  string extra = 11;", "  map<string, string> flags = 12;" >>

\* the schemas the schema named n refers to, at any depth of its definition
Targets(n) == IF Has(Catalogue, n) THEN {LastSegment(r) : r \in RefsIn(At(Catalogue, n))} ELSE {}
RECURSIVE Reach(_, _)
Reach(names, n) ==
  IF n = 0 THEN names ELSE Reach(names \cup UNION {Targets(t) : t \in names}, n - 1)
\* the components schemas that lie on a reference cycle
OnCycle == {n \in {Catalogue.v[i][1].v : i \in 1..Len(Catalogue.v)} :
              n \in Reach(Targets(n), Len(Catalogue.v))}
\* the block of generate_schema_messages that declares the message n
BlockOf(n) == SelectSeq(schemas, LAMBDA b : FirstLine(b) = "message " \o n \o " {")

\* C20: every call of generate_proto comes to an end, and on a document whose
\* components schemas lie on a reference cycle the schema pass has completed
\* when the call goes on to the operations or is left by an exception: each
\* schema of the cycle has one message of its own, with one field per
\* property and the referenced schema named, not expanded, in it.
C20_TerminatesOnReferenceCycles ==
  /\ (pc = "schemas") ~> (pc \in {"done", "raised"})
  /\ [](pc \in {"tagmap", "raised"} =>
          \A n \in OnCycle :
            /\ Len(BlockOf(n)) = 1
            /\ Len(Members(BlockOf(n)[1])) = Len(PropsOf(At(Catalogue, n)))
            /\ \A k \in 1..Len(PropsOf(At(Catalogue, n))) :
                 Let(PropsOf(At(Catalogue, n))[k], LAMBDA kvp :
                   (IsNone(Get(kvp[2], "enum")) /\ Has(kvp[2], "$ref")) =>
                     Members(BlockOf(n)[1])[k]
                       = "  " \o LastSegment(At(kvp[2], "$ref").v) \o " " \o safe_name(kvp[1].v)
                           \o " = " \o IntStr(k) \o ";"))

\* a call on a document with a schema that refers to itself, two schemas that
\* refer to each other and a schema that is a reference to itself has returned
C20_Witness ==
  /\ pc = "done"
  /\ OnCycle = {"Node", "Owner", "Loop"}
  /\ Contains(proto, "message Node {\n  Node next = 1;\n  Owner owner = 2;")
  /\ Contains(proto, "message Owner {\n  Node node = 1;\n}")
  /\ Contains(proto, "message Loop {\n}")


\* the path a components schema takes, by the first test that matches
KindOf(schema) ==
  IF ~IsNone(Get(schema, "enum")) THEN "enum"
  ELSE IF StrEq(Get(schema, "type"), "array") THEN "array"
  ELSE IF StrEq(Get(schema, "type"), "object") /\ ~Truthy(Get(schema, "properties"))
          /\ ~Truthy(Get(schema, "additionalProperties")) THEN "freeform"
  ELSE "object"
\* the one-field wrapper of an array schema
WrapperOf(name, schema) ==
  "message " \o name \o " {\n  repeated "
    \o (IF IsDict(Get(schema, "items")) /\ Has(Get(schema, "items"), "$ref")
        THEN LastSegment(At(At(schema, "items"), "$ref").v)
        ELSE ScalarOf(Get(GetOr(schema, "items", Dict(<<>>)), "type")))
    \o " items = 1;\n}"
\* the enum names the properties of an object-kind schema register
RegisteredBy(schema) ==
  Let(PropEnumSeq(schema), LAMBDA es : {es[i][1] : i \in 1..Len(es)})
\* the blocks are those of the entries, entry by entry in order, each entry
\* on its one path; taken is the set of enum names registered by the entries
\* before, and with skip an enum-kind schema of a taken name yields nothing
RECURSIVE OnePathEach(_, _, _, _)
OnePathEach(entries, blocks, taken, skip) ==
  IF Len(entries) = 0 THEN Len(blocks) = 0
  ELSE
    LET name == Head(entries)[1].v
        schema == Head(entries)[2]
        kind == KindOf(schema)
    IN  IF kind = "freeform" \/ (kind = "enum" /\ skip /\ name \in taken)
        THEN OnePathEach(Tail(entries), blocks, taken, skip)
        ELSE /\ Len(blocks) > 0
             /\ CASE kind = "enum" -> FirstLine(Head(blocks)) = "enum " \o name \o " {"
                  [] kind = "array" -> Head(blocks) = WrapperOf(name, schema)
                  [] OTHER -> FirstLine(Head(blocks)) = "message " \o name \o " {"
             /\ OnePathEach(Tail(entries), Tail(blocks),
                            taken \cup (CASE kind = "enum" -> {name}
                                          [] kind = "array" -> {}
                                          [] OTHER -> RegisteredBy(schema)),
                            skip)

\* C21 as stated: when generate_schema_messages has returned, its blocks are
\* those of the catalogue entries in order, one path per entry by the first
\* matching test: an enum named after an enum-kind schema, the one-field
\* wrapper of an array-kind schema, nothing for a freeform schema, one
\* message named after any other schema.
C21_EachSchemaOnePath ==
  pc = "tagmap" => OnePathEach(Catalogue.v, schemas, {}, FALSE)

\* C21: when generate_schema_messages has returned, its blocks are those of
\* the catalogue entries in order, one path per entry by the first matching
\* test: an enum named after an enum-kind schema unless a property of an
\* earlier schema has registered an enum of that name, in which case the
\* schema yields nothing; the one-field wrapper of an array-kind schema;
\* nothing for a freeform schema; one message named after any other schema.
C21_OnePathUnlessEnumNameTaken ==
  pc = "tagmap" => OnePathEach(Catalogue.v, schemas, {}, TRUE)

\* an enum-kind schema after a schema whose property registered its name,
\* and the four paths taken in one catalogue
C21_Witness ==
  /\ pc = "tagmap"
  /\ \E c \in {Catalogue.v} :
       /\ Len(c) = 2
       /\ c[1][1].v = "Order"
       /\ c[2][1].v = "Status"
  /\ Len(schemas) = 1
  /\ FirstLine(nested_enum_defs[1]) = "enum Status {"


\* the PascalCased operationId, a leading retrieve (in any case) rewritten to get
PascalGet(id) ==
  to_camel(IF StartsWith(Lower(id), "retrieve") THEN "get" \o SubSeq(id, 9, Len(id)) ELSE id)
\* the wrapper names an operation has a message synthesized for: Request for
\* parameters in path, query or header, Body for an inline body that is not
\* freeform, Response for an inline JSON response
SynthesizedFor(op, wrappers) ==
  (IF Len(KeptParams(op)) > 0 THEN {wrappers[1]} ELSE {})
    \cup (IF IsInline(extract_body_schema(op, spec).schema) THEN {wrappers[2]} ELSE {})
    \cup (IF Truthy(JsonSchemaOf(select_response(op))) THEN {wrappers[3]} ELSE {})
\* the rpc lines of the service blocks, top to bottom, in tokens
RpcLines(blocks) ==
  Let(SelectSeq(Split(Join(blocks, "\n"), "\n"), LAMBDA l : StartsWith(l, "  rpc ")),
      LAMBDA ls : [i \in 1..Len(ls) |-> Tokens(ls[i])])

\* C22: when all operations are processed, the rpcs are named by the
\* operationIds, unchanged, in processing order; the request type of an
\* operation with parameters is <P>Request and the return type of one with an
\* inline JSON response <P>Response, P the PascalCased operationId with a
\* leading retrieve rewritten to get; extras holds one message per wrapper
\* name, and for a name that several operations have, the fields of the
\* message are those of the first of them in processing order.
C22_RpcByIdWrappersShared ==
  pc = "assemble" =>
    Let(OpsOfTags(tag_map), LAMBDA ops :
      Let([o \in 1..Len(ops) |->
             Let(PascalGet(OpId(ops[o][3])), LAMBDA camel :
               <<camel \o "Request", camel \o "Body", camel \o "Response">>)],
          LAMBDA wrappers :
        Let([o \in 1..Len(ops) |-> SynthesizedFor(ops[o][3], wrappers[o])], LAMBDA made :
          /\ Let(RpcLines(services), LAMBDA rpcs :
               /\ Len(rpcs) = Len(ops)
               /\ \A o \in 1..Len(ops) :
                    /\ rpcs[o][2] = OpId(ops[o][3])
                    /\ wrappers[o][1] \in made[o] => rpcs[o][3] = "(" \o wrappers[o][1] \o ")"
                    /\ wrappers[o][3] \in made[o] => rpcs[o][5] = "(" \o wrappers[o][3] \o ")")
          /\ {extras[i][1] : i \in 1..Len(extras)} = UNION {made[o] : o \in 1..Len(ops)}
          /\ \A i, j \in 1..Len(extras) : extras[i][1] = extras[j][1] => i = j
          /\ \A i \in 1..Len(extras) :
               Let(CHOOSE o \in 1..Len(ops) :
                     /\ extras[i][1] \in made[o]
                     /\ \A k \in 1..(o - 1) : extras[i][1] \notin made[k],
                   LAMBDA first :
                 IsSourceOf(ops[first][3], wrappers[first], extras[i][1],
                            MemberNames(extras[i][2]))))))

\* retrieveOrder was processed before getOrder: each has its rpc, and the one
\* GetOrderRequest and the one GetOrderResponse are retrieveOrder's
C22_Witness ==
  /\ pc = "assemble"
  /\ Let(RpcLines(services), LAMBDA rpcs :
       /\ Len(rpcs) >= 2
       /\ rpcs[1][2] = "retrieveOrder"
       /\ rpcs[2][2] = "getOrder"
       /\ rpcs[2][3] = "(GetOrderRequest)")
  /\ \E i \in 1..Len(extras) :
       extras[i] = <<"GetOrderRequest", "message GetOrderRequest {\n  string id = 1;\n}">>
  /\ \E i \in 1..Len(extras) :
       extras[i] = <<"GetOrderResponse", "message GetOrderResponse {\n  string a = 1;\n}">>


\* the operations of the document that have no operationId, or a null one
Unnamed ==
  Let(Operations, LAMBDA ops : {o \in 1..Len(ops) : IsNone(Get(ops[o][3], "operationId"))})

\* C23: for a document with an operation that has no operationId, no call of
\* generate_proto gets as far as the assembly and no text is ever returned;
\* every rpc of a returned text is named by the operationId of an operation.
C23_NoIdNoArtifact ==
  /\ Unnamed # {} => (pc \notin {"assemble", "done"} /\ proto = "")
  /\ pc = "assemble" =>
       Let(RpcLines(services), LAMBDA rpcs :
         Let(Operations, LAMBDA ops :
           \A k \in 1..Len(rpcs) :
             \E o \in 1..Len(ops) : StrEq(Get(ops[o][3], "operationId"), rpcs[k][2])))

\* the call raised at an operation without operationId, after an operation
\* of the same document had been processed
C23_Witness ==
  /\ pc = "raised"
  /\ entry # <<>>
  /\ ~Has(entry[3], "operationId")
  /\ Len(extras) > 0
  /\ proto = ""


\* the type name a field line uses: the element type of a repeated field,
\* the value type of a map field, the type of any other
TypeNameOf(line) ==
  Let(Tokens(line), LAMBDA t :
    Let(t[Len(t) - 3], LAMBDA w :
      IF StartsWith(t[1], "map<") THEN SubSeq(w, 1, Len(w) - 1) ELSE w))
\* the type names the fields of the message blocks use
FieldTypes(blocks) ==
  UNION {IF StartsWith(blocks[i], "message ")
         THEN Let(Members(blocks[i]), LAMBDA ms : {TypeNameOf(ms[k]) : k \in 1..Len(ms)})
         ELSE {} : i \in 1..Len(blocks)}
\* the request and return type names of the rpcs
RpcTypes(blocks) ==
  Let(RpcLines(blocks), LAMBDA rpcs :
    UNION {{SubSeq(rpcs[k][3], 2, Len(rpcs[k][3]) - 1), SubSeq(rpcs[k][5], 2, Len(rpcs[k][5]) - 1)}
             : k \in 1..Len(rpcs)})
\* the type names that need no declaration among the blocks
BuiltIn == {"string", "int32", "double", "bool", "google.protobuf.Struct", "Empty"}

\* C24: for a document all of whose references resolve, every type name that
\* a field or an rpc of the artifact uses is a protobuf scalar,
\* google.protobuf.Struct, Empty or the name of a message or enum that a block
\* of the artifact declares.
C24_EveryTypeNameDeclared ==
  (pc = "assemble" /\ DanglingRefs = {}) =>
    Let(schemas \o nested_enum_defs \o ExtrasBlocks, LAMBDA blocks :
      (FieldTypes(blocks) \cup RpcTypes(services))
        \subseteq (BuiltIn \cup {DeclName(FirstLine(blocks[i])) : i \in 1..Len(blocks)}))


\* C25: in every message made from a components schema and in every message
\* of extras the field names are pairwise distinct.
C25_FieldNamesDistinct ==
  Emitted =>
    \A b \in {schemas[i] : i \in 1..Len(schemas)} \cup {extras[i][2] : i \in 1..Len(extras)} :
      StartsWith(b, "message ") =>
        Let(MemberNames(b), LAMBDA ns : \A i, j \in 1..Len(ns) : ns[i] = ns[j] => i = j)


\* C26: when an operation under post, put or patch has been processed, the
\* message named as its request type is among the blocks and declares a
\* field called body.
C26_BodyFieldExists ==
  (Processed /\ entry[2] \in {"post", "put", "patch"}) =>
    \E b \in {schemas[i] : i \in 1..Len(schemas)} \cup {extras[i][2] : i \in 1..Len(extras)} :
      /\ FirstLine(b) = "message " \o req_type \o " {"
      /\ \E k \in 1..Len(MemberNames(b)) : MemberNames(b)[k] = "body"


\* C27: for a document all of whose references resolve, the grouping of the
\* operations does not fail, an empty tag list included; and when all
\* operations are processed, the rpcs are as many as the entries of the path
\* map under get, post, put, patch or delete, each of these has its rpc in
\* exactly one place of the service blocks, and the block at that place is
\* the one of its first tag, or of the default name when it declares none.
C27_OneRpcPerOperation ==
  /\ (pc = "raised" /\ DanglingRefs = {}) => entry # <<>>
  /\ pc = "assemble" =>
       Let(Operations, LAMBDA ops :
         Let([k \in 1..Len(services) |-> RpcNames(services[k])], LAMBDA names :
           /\ Len(RpcLines(services)) = Len(ops)
           /\ \A o \in 1..Len(ops) :
                Let({<<k, i>> \in (1..Len(services)) \X (1..Len(ops)) :
                       i <= Len(names[k]) /\ names[k][i] = OpId(ops[o][3])},
                    LAMBDA places :
                  /\ Cardinality(places) = 1
                  /\ \A pl \in places :
                       FirstLine(services[pl[1]])
                         = "service " \o Sanitized(TagOf(ops[o][3])) \o "Service {")))


\* C29: when all operations are processed, the service blocks have pairwise
\* distinct names.
C29_ServiceNamesDistinct ==
  pc = "assemble" =>
    Let([k \in 1..Len(services) |-> Tokens(FirstLine(services[k]))[2]], LAMBDA names :
      \A i, j \in 1..Len(names) : names[i] = names[j] => i = j)


\* C28: a call returns the text that generate_proto gives for its document in
\* a process in which nothing was compiled before, whatever documents the
\* earlier calls of the process were on and wherever they ended; and it
\* raises only if it raises there.
C28_SameAsInFreshProcess ==
  /\ pc = "done" =>
       Let(generate_proto(spec, Pkg, Base), LAMBDA fresh : fresh.ok /\ proto = fresh.text)
  /\ pc = "raised" => ~generate_proto(spec, Pkg, Base).ok

\* a call on the document whose schema Status comes after a property that
\* registers Status has returned, after the call before it, on another
\* document, had raised
C28_Witness ==
  /\ pc = "done"
  /\ calls >= 2
  /\ prev = ""
  /\ Len(Catalogue.v) = 2
  /\ Catalogue.v[1][1].v = "Order"
  /\ Catalogue.v[2][1].v = "Status"
  /\ proto = generate_proto(spec, Pkg, Base).text

\* the fenced blocks of a reply, in text order: an opening fence with a
\* label of word characters, or none, and a line end; the body up to the
\* next fence
BlocksOf(raw) ==
  LET word == AlnumSet \cup {"_"}
      labelEnd(i) == Nth({e \in (i + 3)..(Len(raw) + 1) :
                            e = Len(raw) + 1 \/ Char(raw, e) \notin word}, 1)
  IN  Let({i \in 1..(Len(raw) - 2) : SubSeq(raw, i, i + 2) = Fence}, LAMBDA fences :
        Let(Sorted({i \in fences :
                      Let(labelEnd(i), LAMBDA e :
                        /\ e <= Len(raw)
                        /\ Char(raw, e) = "\n"
                        /\ \E c \in fences : c > e)}),
            LAMBDA opens :
          [k \in 1..Len(opens) |->
             Let(labelEnd(opens[k]), LAMBDA e :
               [label |-> SubSeq(raw, opens[k] + 3, e - 1),
                body |-> SubSeq(raw, e + 1, Nth({c \in fences : c > e}, 1) - 1)])]))
\* the text without the whitespace at its two ends
Trimmed(s) ==
  LET blank == {" ", "\n", "\t", "\r", "\f"}
      solid == {i \in 1..Len(s) : Char(s, i) \notin blank}
  IN  IF solid = {} THEN "" ELSE SubSeq(s, Nth(solid, 1), Nth(solid, Cardinality(solid)))
\* the body of the first block that has one of the labels
FirstOf(blocks, labels) ==
  blocks[Nth({k \in 1..Len(blocks) : blocks[k].label \in labels}, 1)].body

\* C30 as stated: the cleaned text is the trimmed body of the first fenced
\* block of the reply in text order, whatever its label, and the trimmed
\* reply when the reply has no fenced block.
C30_FirstFenceInTextOrder ==
  proto_content # <<>> =>
    Let(BlocksOf(raw_proto_content), LAMBDA blocks :
      proto_content[1] = IF Len(blocks) = 0 THEN Trimmed(raw_proto_content)
                         ELSE Trimmed(blocks[1].body))

\* C30: the cleaned text is the trimmed body of the first block fenced as
\* protobuf if the reply has one, else of the first block fenced as proto if
\* it has one, else of the first fenced block of any label or none; and the
\* trimmed reply when the reply has no fenced block.
C30_FirstFenceByLabelRank ==
  proto_content # <<>> =>
    Let(BlocksOf(raw_proto_content), LAMBDA blocks :
      Let({blocks[k].label : k \in 1..Len(blocks)}, LAMBDA labels :
        proto_content[1] =
          IF "protobuf" \in labels THEN Trimmed(FirstOf(blocks, {"protobuf"}))
          ELSE IF "proto" \in labels THEN Trimmed(FirstOf(blocks, {"proto"}))
          ELSE IF Len(blocks) > 0 THEN Trimmed(blocks[1].body)
          ELSE Trimmed(raw_proto_content)))

\* a reply with a yaml block, then a proto block, then a protobuf block was
\* cleaned to the body of the protobuf block
C30_Witness ==
  /\ proto_content = <<"message P {}">>
  /\ Let(BlocksOf(raw_proto_content), LAMBDA blocks :
       /\ Len(blocks) = 3
       /\ blocks[1].label = "yaml"
       /\ blocks[2].label = "proto"
       /\ blocks[3].label = "protobuf")

====
